---- MODULE Spec2Model ----
(***************************************************************************)
(* Model of the mind-scan-report visit ingestion pipeline:                 *)
(*   - mapToDementiaStage (stage normalizer) and the confidence extraction *)
(*     of the process-mri edge function (final revision),                  *)
(*   - the process-mri request handler, one step per await,                *)
(*   - the client upload form (MriUploadForm.handleSubmit),                *)
(*   - the patients / visits tables with their constraints,                *)
(*   - the pages that read the tables (Dashboard, PatientProfile) and      *)
(*     their downloads and exports.                                        *)
(*                                                                         *)
(* JavaScript values are records [k, s, n]: k is the kind, s the text of a *)
(* string, n the value of a finite number in units of 10^-5.               *)
(***************************************************************************)
EXTENDS Integers, Sequences, FiniteSets, TLC

VARIABLES
  apiClass,      \* argument of mapToDementiaStage
  mapResult,     \* its return value (undefined until called)
  confidences,   \* dementiaAnalysis.confidences handed to the extraction
  confidence,    \* the handler's local `confidence` (undefined until computed)
  patients,      \* public.patients: id -> name
  visits,        \* public.visits: the rows, in insertion order
  nextVisitId,   \* stands for gen_random_uuid() / NOW(): next fresh row id
  req,           \* process-mri: the state of each invocation
  form,          \* MriUploadForm: the component's state
  page,          \* the mounted page (Dashboard or PatientProfile) and its state
  panel,         \* InsightsPanel: its props and what it rendered
  dashboard,     \* Dashboard (analytics variant): allVisits, metrics, export
  research,      \* ResearchExport: its props and the file it wrote
  report,        \* PatientProfile: patient, visit, the clock, the JSON downloads
  pdf            \* PatientProfile: the document the local PDF fallback builds

vars == <<apiClass, mapResult, confidences, confidence,
          patients, visits, nextVisitId, req, form, page, panel, dashboard, research, report,
          pdf>>
pureVars  == <<apiClass, mapResult, confidences, confidence>>
storeVars == <<patients, visits, nextVisitId>>
viewVars  == <<panel, dashboard, research, report, pdf>>

----------------------------------------------------------------------------
(* JavaScript values *)

Str(t)    == [k |-> "string",    s |-> t,           n |-> 0]
Num(i)    == [k |-> "number",    s |-> "",          n |-> i]
null      == [k |-> "null",      s |-> "",          n |-> 0]
undefined == [k |-> "undefined", s |-> "",          n |-> 0]
NaN       == [k |-> "number",    s |-> "NaN",       n |-> 0]
PosInf    == [k |-> "number",    s |-> "Infinity",  n |-> 0]
NegInf    == [k |-> "number",    s |-> "-Infinity", n |-> 0]
Fn        == [k |-> "function",  s |-> "",          n |-> 0]
true      == [k |-> "boolean",   s |-> "",          n |-> 1]
false     == [k |-> "boolean",   s |-> "",          n |-> 0]

IsFiniteNum(v) == v.k = "number" /\ v.s = ""

\* ToBoolean
Falsy(v) ==
  \/ v.k \in {"null", "undefined"}
  \/ v.k = "string" /\ v.s = ""
  \/ v.k = "number" /\ (v = NaN \/ (IsFiniteNum(v) /\ v.n = 0))
  \/ v = false

\* a || b
OrElse(a, b) == IF Falsy(a) THEN b ELSE a

\* ${v} in a template literal
Template(v) ==
  IF v.k = "string" THEN v.s ELSE IF v.k = "undefined" THEN "undefined" ELSE "null"

\* JSON.stringify of a property value, as the store client sends it: a
\* property holding undefined or a function is dropped (the column takes its
\* default, NULL), a non-finite number is written as null.
toJSON(v) ==
  IF v.k \in {"undefined", "function"} THEN null
  ELSE IF v.k = "number" /\ ~IsFiniteNum(v) THEN null
  ELSE v

----------------------------------------------------------------------------
(* String primitives *)

UpperToLower ==
  [A |-> "a", B |-> "b", C |-> "c", D |-> "d", E |-> "e", F |-> "f", G |-> "g",
   H |-> "h", I |-> "i", J |-> "j", K |-> "k", L |-> "l", M |-> "m", N |-> "n",
   O |-> "o", P |-> "p", Q |-> "q", R |-> "r", S |-> "s", T |-> "t", U |-> "u",
   V |-> "v", W |-> "w", X |-> "x", Y |-> "y", Z |-> "z"]

toLowerCase_mut(t) == t

RECURSIVE toLowerCase(_)
toLowerCase(t) ==
  IF t = "" THEN ""
  ELSE (IF Head(t) \in DOMAIN UpperToLower THEN UpperToLower[Head(t)] ELSE Head(t))
       \o toLowerCase(Tail(t))

Whitespace == {" ", "\t", "\n", "\r"}

RECURSIVE skipWhitespace(_)
skipWhitespace(t) ==
  IF t # "" /\ Head(t) \in Whitespace THEN skipWhitespace(Tail(t)) ELSE t

\* t.replace(/\s+/g, '_'): every maximal run of whitespace becomes one "_"
RECURSIVE replaceWhitespace(_)
replaceWhitespace(t) ==
  IF t = "" THEN ""
  ELSE IF Head(t) \in Whitespace
       THEN "_" \o replaceWhitespace(skipWhitespace(t))
       ELSE Head(t) \o replaceWhitespace(Tail(t))

\* t.replace(/_/g, '')
RECURSIVE removeUnderscores(_)
removeUnderscores(t) ==
  IF t = "" THEN ""
  ELSE (IF Head(t) = "_" THEN "" ELSE Head(t)) \o removeUnderscores(Tail(t))

\* t.includes(key)
includes(t, key) ==
  \E i \in 1..(Len(t) - Len(key) + 1) : SubSeq(t, i, i + Len(key) - 1) = key

----------------------------------------------------------------------------
(* The stage normalizer *)

VALID_DEMENTIA_STAGES ==
  <<"Normal", "Very_Mild_Dementia", "Mild_Dementia", "Moderate_Dementia">>

mappings_mut ==
  ("Non Demented" :> "Normal") @@
  ("Very Mild Dementia" :> "Very_Mild_Dementia") @@
  ("Mild Dementia" :> "Very_Mild_Dementia") @@
  ("Moderate Dementia" :> "Moderate_Dementia")

mappings ==
  ("Non Demented" :> "Normal") @@
  ("Very Mild Dementia" :> "Very_Mild_Dementia") @@
  ("Mild Dementia" :> "Mild_Dementia") @@
  ("Moderate Dementia" :> "Moderate_Dementia")

\* Property names every object literal inherits from Object.prototype; the
\* `in` operator finds them too, and all of them hold functions.
ObjectPrototypeKeys ==
  {"constructor", "toString", "toLocaleString", "valueOf", "hasOwnProperty",
   "isPrototypeOf", "propertyIsEnumerable"}

\* apiClass in mappings
inMappings(t) == t \in DOMAIN mappings \/ t \in ObjectPrototypeKeys

\* mappings[apiClass]
lookupMappings(t) == IF t \in DOMAIN mappings THEN Str(mappings[t]) ELSE Fn

\* the condition of the loop over VALID_DEMENTIA_STAGES
fuzzyMatch(normalized, validStage) ==
  LET key == removeUnderscores(toLowerCase(validStage))
  IN  includes(normalized, key) \/ includes(key, normalized)

\* the "final fallback for common cases"
keywordFallback(normalized) ==
  IF includes(normalized, "normal") \/ includes(normalized, "non") THEN Str("Normal")
  ELSE IF includes(normalized, "verymild") \/ includes(normalized, "very_mild")
       THEN Str("Very_Mild_Dementia")
  ELSE IF includes(normalized, "mild") /\ ~includes(normalized, "very")
       THEN Str("Mild_Dementia")
  ELSE IF includes(normalized, "moderate") THEN Str("Moderate_Dementia")
  ELSE null

mapToDementiaStage(cls) ==
  IF Falsy(cls) THEN null
  ELSE IF inMappings(cls.s) THEN lookupMappings(cls.s)
  ELSE LET normalized == toLowerCase(replaceWhitespace(cls.s))
           hits == {i \in DOMAIN VALID_DEMENTIA_STAGES :
                      fuzzyMatch(normalized, VALID_DEMENTIA_STAGES[i])}
       IN  IF hits # {}
           THEN Str(VALID_DEMENTIA_STAGES[CHOOSE i \in hits : \A j \in hits : i <= j])
           ELSE keywordFallback(normalized)

----------------------------------------------------------------------------
(* Labels the external classifier may send: whole labels, and every        *)
(* concatenation of at most MaxFragments fragments.                        *)

MaxFragments == 3

WholeLabels ==
  {"", "Non Demented", "Very Mild Dementia", "Mild Dementia", "Moderate Dementia",
   "Normal", "Very_Mild_Dementia", "Mild_Dementia", "Moderate_Dementia",
   "Dementia", "unknown", "toString"}

Fragments ==
  {"mild", "very", "very mild", "very_mild", "Moderate", "non", "normal",
   "dementia", "d", "a", "x", " "}

RECURSIVE Join(_)
Join(fs) == IF fs = <<>> THEN "" ELSE Head(fs) \o Join(Tail(fs))

Labels ==
  WholeLabels \cup
  { Join(fs) : fs \in UNION { [1..n -> Fragments] : n \in 1..MaxFragments } }

---------------------------------------------------------------------------------------------------------------------------------------------------
(* The confidence extraction of the handler (valid-MRI branch) *)

Obj(vs) == [k |-> "object", s |-> "", n |-> 0, vals |-> vs]

Unit == 100000   \* the number 1 in units of 10^-5

\* Math.max(...values): -Infinity for no argument, NaN if any argument is NaN
MathMax(vs) ==
  IF vs = <<>> THEN NegInf
  ELSE IF \E i \in DOMAIN vs : vs[i] = NaN THEN NaN
  ELSE IF \E i \in DOMAIN vs : vs[i] = PosInf THEN PosInf
  ELSE IF \A i \in DOMAIN vs : vs[i] = NegInf THEN NegInf
  ELSE LET fin == {vs[i].n : i \in {j \in DOMAIN vs : IsFiniteNum(vs[j])}}
       IN  Num(CHOOSE m \in fin : \A x \in fin : x <= m)

clamp01_mut(x) == x

\* Math.max(0, Math.min(1, x)) for a finite x
clamp01(x) == IF x < 0 THEN 0 ELSE IF x > Unit THEN Unit ELSE x

\* parseFloat(x.toFixed(4)) for 0 <= x <= 1: nearest multiple of 10^-4.
\* The inputs never sit exactly half way between two multiples, where the
\* digit toFixed prints depends on the binary expansion of the double.
toFixed4(x) == ((x + 5) \div 10) * 10

extractConfidence_mut(cs) == null

extractConfidence(cs) ==
  IF Falsy(cs) THEN null
  ELSE LET maxConfidence == MathMax(cs.vals)
       IN  IF maxConfidence # NaN /\ IsFiniteNum(maxConfidence)
           THEN Num(toFixed4(clamp01(maxConfidence.n)))
           ELSE null

MaxConfEntries == 3

ConfValues ==
  {Num(0 - 20000), Num(0), Num(12344), Num(12346), Num(75000), Num(99996),
   Num(Unit), Num(150000), NaN, PosInf, NegInf}

ConfObjects ==
  {Obj(vs) : vs \in UNION { [1..n -> ConfValues] : n \in 0..MaxConfEntries }}

----------------------------------------------------------------------------
(* The store: public.patients and public.visits *)

\* identifiers that are well-formed UUIDs; PatientIds are the ones in use
UuidSpace == {"p1", "p2", "p9"}

DementiaStageEnum ==
  {"Normal", "Very_Mild_Dementia", "Mild_Dementia", "Moderate_Dementia"}

\* DECIMAL(5,4): numeric input is rounded to 4 decimals, half away from zero
numericRound4(x) ==
  IF x >= 0 THEN ((x + 5) \div 10) * 10 ELSE 0 - (((0 - x) + 5) \div 10) * 10

\* The SQLSTATE the insert of `row` fails with in the store state `ps`
\* (patients), or "" if the row is accepted.  Columns are checked in the
\* order PostgreSQL works in: input conversion, NOT NULL, then foreign keys.
insertErrorCode(row, ps) ==
  IF row.patient_id.k = "string" /\ row.patient_id.s \notin UuidSpace THEN "22P02"
  ELSE IF row.predicted_class.k = "string" /\ row.predicted_class.s \notin DementiaStageEnum
       THEN "22P02"
  ELSE IF IsFiniteNum(row.confidence) /\
          (numericRound4(row.confidence.n) >= 10 * Unit \/
           numericRound4(row.confidence.n) <= 0 - 10 * Unit)
       THEN "22003"
  ELSE IF row.patient_id = null \/ row.raw_report = null THEN "23502"
  ELSE IF row.patient_id.s \notin DOMAIN ps THEN "23503"
  ELSE ""

storeMessage(code) ==
  IF code = "22P02" THEN "invalid input syntax"
  ELSE IF code = "22003" THEN "numeric field overflow"
  ELSE IF code = "23502" THEN "null value violates not-null constraint"
  ELSE IF code = "23503" THEN "violates foreign key constraint"
  ELSE "store unavailable"

\* the row as stored: defaults filled in, confidence in column precision
storedRow(row, id) ==
  [id |-> id, created_at |-> id,
   patient_id |-> row.patient_id.s,
   raw_report |-> row.raw_report,
   predicted_class |-> row.predicted_class,
   confidence |-> IF IsFiniteNum(row.confidence)
                  THEN Num(numericRound4(row.confidence.n)) ELSE null,
   insights |-> row.insights,
   created_by |-> row.created_by]

\* what the client serialises of a visit object
serializeVisit(v) ==
  [patient_id |-> toJSON(v.patient_id), raw_report |-> toJSON(v.raw_report),
   predicted_class |-> toJSON(v.predicted_class), confidence |-> toJSON(v.confidence),
   insights |-> toJSON(v.insights), created_by |-> toJSON(v.created_by)]

\* an insert that is dropped when the patient already has a visit
insertVisit_mut(v, fail) ==
  LET row  == serializeVisit(v)
      code == IF fail THEN "08006" ELSE insertErrorCode(row, patients)
      same == {i \in DOMAIN visits : visits[i].patient_id = row.patient_id.s}
  IN  IF code # ""
      THEN [code |-> code, id |-> 0, table |-> visits, next |-> nextVisitId]
      ELSE IF same # {}
      THEN [code |-> "", id |-> visits[CHOOSE i \in same : TRUE].id, table |-> visits,
            next |-> nextVisitId]
      ELSE [code |-> "", id |-> nextVisitId,
            table |-> Append(visits, storedRow(row, nextVisitId)),
            next |-> nextVisitId + 1]

appendRow_mut(table, row) == IF table = <<>> THEN <<row>> ELSE [table EXCEPT ![1] = row]

\* INSERT INTO visits: the new row is added, the others are left as they are
appendRow(table, row) == Append(table, row)

\* .from('visits').insert(v).select().single(): one statement, one
\* transaction.  `fail` is a failure of the store itself (connection lost,
\* statement timeout); the result is <<error code, new visits, new id>>.
insertVisit(v, fail) ==
  LET row  == serializeVisit(v)
      code == IF fail THEN "08006" ELSE insertErrorCode(row, patients)
  IN  IF code = ""
      THEN [code |-> "", id |-> nextVisitId,
            table |-> appendRow(visits, storedRow(row, nextVisitId)),
            next |-> nextVisitId + 1]
      ELSE [code |-> code, id |-> 0, table |-> visits, next |-> nextVisitId]

----------------------------------------------------------------------------
(* The external collaborators of process-mri *)

ReqIds == {"r1", "r2"}

Methods == {"POST", "OPTIONS"}

AuthHeaders ==
  {null, Str(""), Str("Bearer tok-u1"), Str("Bearer tok-u2"), Str("Bearer expired")}

\* the auth service: the bearer tokens it resolves, and to whom
TokenUsers == ("tok-u1" :> "u1") @@ ("tok-u2" :> "u2")

\* req.formData(): ok = FALSE is a body that is not form data
Bodies ==
  {[ok |-> FALSE, file |-> null, patientId |-> null]} \cup
  {[ok |-> TRUE, file |-> f, patientId |-> p] :
     f \in {null, Str("scan.png")},
     p \in {null, Str(""), Str("p1"), Str("p2"), Str("p9"), Str("not-a-uuid")}}

Analysis(cls, cs, ins) ==
  [k |-> "object", s |-> "", n |-> 0,
   predictedClass |-> cls, confidences |-> cs, insights |-> ins]

ApiResult(isMRI, status, message, mriConfidence, analysis) ==
  [k |-> "object", s |-> "", n |-> 0,
   isMRI |-> isMRI, status |-> status, message |-> message,
   mriConfidence |-> mriConfidence, dementiaAnalysis |-> analysis]

UpstreamLabels ==
  {undefined, Str("Mild Dementia"), Str("mild"), Str("Dementia"), Str("unknown")}

UpstreamConfidences ==
  {undefined, Obj(<<Num(10000), Num(75000), Num(15000)>>), Obj(<<Num(150000)>>),
   Obj(<<NaN>>)}

UpstreamInsights == {undefined, Str("Hippocampal atrophy.")}

Analyses ==
  {Analysis(l, Obj(<<Num(10000), Num(75000), Num(15000)>>), Str("Hippocampal atrophy.")) :
     l \in UpstreamLabels}
  \cup {Analysis(Str("Mild Dementia"), c, i) :
          c \in UpstreamConfidences, i \in UpstreamInsights}

ApiResults ==
  {ApiResult(false, Str("not_mri"), Str("no brain structure detected"), m, undefined) :
     m \in {Num(42000), Num(42005), Num(150000)}}
  \cup {ApiResult(undefined, undefined, undefined, undefined, undefined)}
  \cup {ApiResult(true, Str("not_mri"), undefined, Num(42000), a) :
          a \in {undefined, Analysis(Str("Mild Dementia"), Obj(<<Num(75000)>>), undefined)}}
  \cup {ApiResult(true, Str("success"), undefined, undefined, undefined)}
  \cup {ApiResult(true, Str("success"), undefined, undefined, a) : a \in Analyses}

\* what fetch() and apiResponse.json() come back with
UpstreamOutcomes ==
  {[kind |-> "networkError", ok |-> FALSE, status |-> "", parses |-> FALSE, result |-> null],
   [kind |-> "response", ok |-> FALSE, status |-> "503", parses |-> FALSE, result |-> null],
   [kind |-> "response", ok |-> FALSE, status |-> "404", parses |-> FALSE, result |-> null],
   [kind |-> "response", ok |-> TRUE, status |-> "200", parses |-> FALSE, result |-> null]}
  \cup {[kind |-> "response", ok |-> TRUE, status |-> "200", parses |-> TRUE, result |-> a] :
          a \in ApiResults}

----------------------------------------------------------------------------
(* process-mri, final revision *)

\* t.replace(pat, rep) with a string pattern: the first occurrence only
replaceFirst(t, pat, rep) ==
  LET at == {i \in 1..(Len(t) - Len(pat) + 1) : SubSeq(t, i, i + Len(pat) - 1) = pat}
  IN  IF at = {} THEN t
      ELSE LET i == CHOOSE x \in at : \A y \in at : x <= y
           IN  SubSeq(t, 1, i - 1) \o rep \o SubSeq(t, i + Len(pat), Len(t))

personalizeInsights(insights, patientName) ==
  IF Falsy(insights) \/ Falsy(patientName) THEN insights
  ELSE Str("Patient Analysis for " \o patientName.s \o "\n\n" \o insights.s)

noResponse == [kind |-> "none", status |-> 0, error |-> "", isValid |-> null, visit |-> 0]

\* new Response(null, { headers: corsHeaders })
preflightResponse ==
  [kind |-> "preflight", status |-> 200, error |-> "", isValid |-> null, visit |-> 0]

\* the catch block: { error: error.message }, status 500
errorResponse(message) ==
  [kind |-> "error", status |-> 500, error |-> message, isValid |-> null, visit |-> 0]

\* { success: true, visit, isValid, ... }
successResponse(visitId, isValid) ==
  [kind |-> "success", status |-> 200, error |-> "", isValid |-> isValid, visit |-> visitId]

\* fetch() has not answered
noApiResponse == [kind |-> "none", ok |-> FALSE, status |-> ""]

idleReq ==
  [pc |-> "idle", method |-> "", authHeader |-> undefined, user |-> null,
   body |-> [ok |-> FALSE, file |-> null, patientId |-> null],
   patientName |-> null, apiResponse |-> noApiResponse,
   apiResult |-> undefined, visitData |-> undefined, visitError |-> "",
   response |-> noResponse,
   bodyReads |-> 0, fetches |-> 0, inserts |-> 0, stored |-> {}]

\* supabase.auth.getUser(token): { data: { user }, error }
authGetUser(token) ==
  IF token \in DOMAIN TokenUsers
  THEN [user |-> Str(TokenUsers[token]), error |-> null]
  ELSE [user |-> null, error |-> Str("invalid JWT")]

authServiceDown == [user |-> null, error |-> Str("auth service unavailable")]

\* !authHeader
noAuthHeader(authHeader) == Falsy(authHeader)

unauthorized_mut(authError, user) == FALSE

\* authError || !user
unauthorized(authError, user) == authError # null \/ Falsy(user)

noFile(file) == Falsy(file)

noPatientId_mut(patientId) == patientId = null

\* !patientId
noPatientId(patientId) == Falsy(patientId)

nonMriVisit_mut(apiResult, patientId, user) ==
  [patient_id |-> patientId, raw_report |-> apiResult, predicted_class |-> null,
   confidence |-> null, insights |-> Str("Not an MRI scan."), created_by |-> user]

\* the visit of the not-an-MRI branch
nonMriVisit(apiResult, patientId, user) ==
  [patient_id |-> patientId,
   raw_report |-> apiResult,
   predicted_class |-> null,
   confidence |-> apiResult.mriConfidence,
   insights |-> Str("Not an MRI scan. " \o Template(OrElse(apiResult.message, Str("")))),
   created_by |-> user]

mriVisit_mut(apiResult, patientId, patientName, user) ==
  [patient_id |-> patientId,
   raw_report |-> apiResult,
   predicted_class |-> OrElse(apiResult.dementiaAnalysis.predictedClass, null),
   confidence |-> extractConfidence(apiResult.dementiaAnalysis.confidences),
   insights |-> personalizeInsights(OrElse(apiResult.dementiaAnalysis.insights, null),
                                    patientName),
   created_by |-> user]

\* visitData of the valid-MRI branch
mriVisit(apiResult, patientId, patientName, user) ==
  LET dementiaAnalysis  == apiResult.dementiaAnalysis
      rawPredictedClass == OrElse(dementiaAnalysis.predictedClass, null)
  IN  [patient_id |-> patientId,
       raw_report |-> apiResult,
       predicted_class |-> mapToDementiaStage(rawPredictedClass),
       confidence |-> extractConfidence(dementiaAnalysis.confidences),
       insights |-> personalizeInsights(OrElse(dementiaAnalysis.insights, null), patientName),
       created_by |-> user]

notAnMri_mut(apiResult) == Falsy(apiResult.isMRI)

\* !isMRI || status === 'not_mri'
notAnMri(apiResult) == Falsy(apiResult.isMRI) \/ apiResult.status = Str("not_mri")

nonMriInsertResponse_mut(code, visitId) == successResponse(visitId, false)

nonMriInsertResponse(code, visitId) ==
  IF code # ""
  THEN errorResponse("Failed to save visit data for non-MRI: " \o storeMessage(code))
  ELSE successResponse(visitId, false)

mriInsertResponse(code, visitId) ==
  IF code = "" THEN successResponse(visitId, true)
  ELSE IF code = "23503"
       THEN errorResponse("Failed to save visit: Foreign key constraint violation. Invalid patient ID.")
  ELSE IF code = "23502"
       THEN errorResponse("Failed to save visit: Not-null constraint violation.")
  ELSE IF code = "22P02"
       THEN errorResponse("Failed to save visit: Invalid enum value for predicted_class.")
  ELSE errorResponse("Failed to save visit data: " \o storeMessage(code))

Respond(r, resp) == req' = [req EXCEPT ![r].pc = "done", ![r].response = resp]

\* a request reaches the function
Arrive(r) ==
  /\ req[r].pc = "idle"
  /\ \E m \in Methods, h \in AuthHeaders :
       req' = [req EXCEPT ![r].pc = "start", ![r].method = m, ![r].authHeader = h]
  /\ UNCHANGED <<pureVars, storeVars, form, page, viewVars>>

\* from the entry of the handler to the call of auth.getUser
Start(r) ==
  /\ req[r].pc = "start"
  /\ IF req[r].method = "OPTIONS" THEN Respond(r, preflightResponse)
     ELSE IF noAuthHeader(req[r].authHeader)
          THEN Respond(r, errorResponse("No authorization header"))
     ELSE req' = [req EXCEPT ![r].pc = "getUser"]
  /\ UNCHANGED <<pureVars, storeVars, form, page, viewVars>>

\* auth.getUser answers; on success the handler calls req.formData()
GetUserReturn(r) ==
  /\ req[r].pc = "getUser"
  /\ \E res \in {authGetUser(replaceFirst(req[r].authHeader.s, "Bearer ", "")),
                 authServiceDown} :
       IF unauthorized(res.error, res.user)
       THEN Respond(r, errorResponse("Unauthorized"))
       ELSE req' = [req EXCEPT ![r].pc = "formData", ![r].user = res.user,
                               ![r].bodyReads = @ + 1]
  /\ UNCHANGED <<pureVars, storeVars, form, page, viewVars>>

\* the body is parsed; on success the handler queries the patient's name
FormDataReturn(r) ==
  /\ req[r].pc = "formData"
  /\ \E b \in Bodies :
       IF ~b.ok
       THEN req' = [req EXCEPT ![r].pc = "done", ![r].body = b,
                               ![r].response = errorResponse("TypeError")]
       ELSE IF noFile(b.file)
       THEN req' = [req EXCEPT ![r].pc = "done", ![r].body = b,
                               ![r].response = errorResponse("No file provided")]
       ELSE IF noPatientId(b.patientId)
       THEN req' = [req EXCEPT ![r].pc = "done", ![r].body = b,
                               ![r].response = errorResponse("No patient ID provided")]
       ELSE req' = [req EXCEPT ![r].pc = "patientLookup", ![r].body = b]
  /\ UNCHANGED <<pureVars, storeVars, form, page, viewVars>>

\* the patients query answers (its error is ignored); the handler calls fetch
PatientLookupReturn(r) ==
  /\ req[r].pc = "patientLookup"
  /\ LET id          == req[r].body.patientId.s
         patientData == IF id \in DOMAIN patients THEN Str(patients[id]) ELSE null
     IN  req' = [req EXCEPT ![r].pc = "fetch",
                            ![r].patientName = OrElse(patientData, null),
                            ![r].fetches = @ + 1]
  /\ UNCHANGED <<pureVars, storeVars, form, page, viewVars>>

userId_mut(user) == Str("u1")

\* user.id
userId(user) == user

apiCallFailed_mut(status) == "API call failed"

\* `API call failed: ${apiResponse.status}`
apiCallFailed(status) == "API call failed: " \o status

\* the classifier answers; the handler works up to its insert
FetchReturn(r) ==
  /\ req[r].pc = "fetch"
  /\ \E out \in UpstreamOutcomes :
       LET me   == req[r]
           seen == [req EXCEPT ![r].apiResponse =
                      [kind |-> out.kind, ok |-> out.ok, status |-> out.status]]
           fails(message) ==
             req' = [seen EXCEPT ![r].pc = "done", ![r].response = errorResponse(message)]
       IN  IF out.kind = "networkError" THEN fails("fetch failed")
           ELSE IF ~out.ok THEN fails(apiCallFailed(out.status))
           ELSE IF ~out.parses THEN fails("SyntaxError")
           ELSE LET apiResult == out.result
                    got       == [seen EXCEPT ![r].apiResult = apiResult]
                IN  IF notAnMri(apiResult)
                    THEN IF me.user = null
                         THEN req' = [got EXCEPT ![r].pc = "done",
                                                 ![r].response = errorResponse("TypeError")]
                         ELSE req' = [got EXCEPT ![r].pc = "insertNonMri",
                                       ![r].visitData =
                                          nonMriVisit(apiResult, me.body.patientId,
                                                      userId(me.user)),
                                       ![r].inserts = @ + 1]
                    ELSE IF Falsy(apiResult.dementiaAnalysis)
                    THEN req' = [got EXCEPT ![r].pc = "done",
                                   ![r].response =
                                      errorResponse("Missing dementia analysis data in API response")]
                    ELSE IF me.user = null
                    THEN req' = [got EXCEPT ![r].pc = "done",
                                            ![r].response = errorResponse("TypeError")]
                    ELSE req' = [got EXCEPT ![r].pc = "insertMri",
                                   ![r].visitData =
                                      mriVisit(apiResult, me.body.patientId, me.patientName,
                                               userId(me.user)),
                                   ![r].inserts = @ + 1]
  /\ UNCHANGED <<pureVars, storeVars, form, page, viewVars>>

\* the store answers the insert; the handler responds
InsertReturn(r) ==
  /\ req[r].pc \in {"insertNonMri", "insertMri"}
  /\ \E fail \in BOOLEAN :
       LET res  == insertVisit(req[r].visitData, fail)
           resp == IF req[r].pc = "insertNonMri"
                   THEN nonMriInsertResponse(res.code, res.id)
                   ELSE mriInsertResponse(res.code, res.id)
       IN  /\ visits' = res.table
           /\ nextVisitId' = res.next
           /\ req' = [req EXCEPT ![r].pc = "done", ![r].response = resp,
                                 ![r].visitError = res.code,
                                 ![r].stored = IF res.code = "" THEN @ \cup {res.id} ELSE @]
  /\ UNCHANGED <<pureVars, patients, form, page, viewVars>>

HandlerStep(r) ==
  \/ Arrive(r)
  \/ Start(r)
  \/ GetUserReturn(r)
  \/ FormDataReturn(r)
  \/ PatientLookupReturn(r)
  \/ FetchReturn(r)
  \/ InsertReturn(r)

----------------------------------------------------------------------------
(* MriUploadForm: the client that classifies and inserts by itself *)

MaxSubmits == 2

\* the patientId prop: the profile page of patient p1
formPatientId == "p1"

\* supabase.auth.getSession(): the signed-in user's session, or none
Sessions == {null, Str("u1")}

\* `revision` says which handleSubmit the build carries: "direct" classifies
\* and inserts by itself, "edge" hands the upload to process-mri
idleForm ==
  [revision |-> "direct", pc |-> "idle", file |-> null, loading |-> FALSE, notMri |-> FALSE,
   session |-> null, apiResult |-> undefined, visitData |-> undefined,
   toast |-> "", submits |-> 0, onSuccessCalls |-> 0, stored |-> {}]

\* the mapping table of handleSubmit and its `||` fallback
formMapClass(predictedClass) ==
  OrElse(IF inMappings(predictedClass.s) THEN lookupMappings(predictedClass.s) ELSE undefined,
         Str(replaceWhitespace(predictedClass.s)))

\* the row handleSubmit inserts
formVisit(apiResult, session) ==
  LET isMRI == apiResult.isMRI = true
      da    == apiResult.dementiaAnalysis
      predictedClass == IF isMRI
                        THEN (IF da.k = "object" THEN da.predictedClass ELSE undefined)
                        ELSE null
      formConfidence ==
        IF isMRI /\ da.k = "object" /\ ~Falsy(da.confidences)
        THEN MathMax(da.confidences.vals)
        ELSE IF ~isMRI /\ apiResult.mriConfidence.k = "number"
             THEN apiResult.mriConfidence
        ELSE null
      dbPredictedClass ==
        IF isMRI /\ ~Falsy(predictedClass) THEN formMapClass(predictedClass) ELSE null
  IN  [patient_id |-> Str(formPatientId),
       raw_report |-> apiResult,
       predicted_class |-> dbPredictedClass,
       confidence |-> formConfidence,
       insights |-> IF isMRI
                    THEN (IF da.k = "object" THEN da.insights ELSE undefined)
                    ELSE Str("Not an MRI scan. " \o Template(apiResult.message)),
       created_by |-> session]

formFailed_mut(message) ==
  [form EXCEPT !.pc = "idle", !.toast = message]

\* catch + finally of handleSubmit
formFailed(message) ==
  [form EXCEPT !.pc = "idle", !.toast = message, !.loading = FALSE]

\* handleFileChange with a file the validation accepts or rejects
SelectFile ==
  /\ ~form.loading
  /\ \E accepted \in BOOLEAN :
       form' = IF accepted
               THEN [form EXCEPT !.file = Str("scan.png"), !.notMri = FALSE]
               ELSE [form EXCEPT !.toast = "Please select a valid image file",
                                 !.notMri = FALSE]
  /\ UNCHANGED <<pureVars, storeVars, req, page, viewVars>>

\* the X button: setFile(null)
ClearFile ==
  /\ ~form.loading
  /\ form.file # null
  /\ form' = [form EXCEPT !.file = null]
  /\ UNCHANGED <<pureVars, storeVars, req, page, viewVars>>

\* handleSubmit up to its first await
Submit ==
  /\ form.revision = "direct"
  /\ form.pc = "idle"
  /\ form.submits < MaxSubmits
  /\ form' = IF form.file = null
             THEN [form EXCEPT !.toast = "Please select an MRI image file"]
             ELSE [form EXCEPT !.pc = "getSession", !.loading = TRUE, !.notMri = FALSE,
                               !.submits = @ + 1, !.apiResult = undefined,
                               !.visitData = undefined]
  /\ UNCHANGED <<pureVars, storeVars, req, page, viewVars>>

FormSessionReturn ==
  /\ form.pc = "getSession"
  /\ \E session \in Sessions :
       form' = IF session = null
               THEN formFailed("Not authenticated")
               ELSE [form EXCEPT !.pc = "fetch", !.session = session]
  /\ UNCHANGED <<pureVars, storeVars, req, page, viewVars>>

\* the classifier answers; handleSubmit works up to its insert
FormFetchReturn ==
  /\ form.pc = "fetch"
  /\ \E out \in UpstreamOutcomes :
       form' = IF out.kind = "networkError" THEN formFailed("Failed to fetch")
               ELSE IF ~out.ok THEN formFailed("API call failed: " \o out.status)
               ELSE IF ~out.parses THEN formFailed("SyntaxError")
               ELSE [form EXCEPT !.pc = "insert", !.apiResult = out.result,
                                 !.visitData = formVisit(out.result, form.session)]
  /\ UNCHANGED <<pureVars, storeVars, req, page, viewVars>>

\* the store answers the insert; feedback, onSuccess(), finally
FormInsertReturn ==
  /\ form.pc = "insert"
  /\ \E fail \in BOOLEAN :
       LET res == insertVisit(form.visitData, fail)
       IN  /\ visits' = res.table
           /\ nextVisitId' = res.next
           /\ form' = IF res.code # ""
                      THEN formFailed("Failed to save visit data: " \o storeMessage(res.code))
                      ELSE [form EXCEPT
                              !.pc = "idle", !.loading = FALSE,
                              !.notMri = (form.apiResult.isMRI # true),
                              !.toast = IF form.apiResult.isMRI # true
                                        THEN "Not a Brain MRI" ELSE "Success",
                              !.onSuccessCalls = @ + 1,
                              !.stored = @ \cup {res.id}]
  /\ UNCHANGED <<pureVars, patients, req, page, viewVars>>

FormStep ==
  \/ SelectFile
  \/ ClearFile
  \/ Submit
  \/ FormSessionReturn
  \/ FormFetchReturn
  \/ FormInsertReturn

-----------------------------------------------------------------------------
(* MriUploadForm, the revision that hands the upload to process-mri *)

\* what supabase.functions.invoke('process-mri') resolves to: a transport
\* failure, or one of the responses of the function
InvokeOutcomes ==
  {[response |-> noResponse, message |-> "Failed to send a request to the Edge Function"],
   [response |-> preflightResponse, message |-> ""],
   [response |-> errorResponse("Not an MRI scan"), message |-> "Edge Function returned a non-2xx status code"],
   [response |-> errorResponse("API call failed: 503"), message |-> "Edge Function returned a non-2xx status code"]}
  \cup {[response |-> successResponse(id, isValid), message |-> ""] :
           id \in 1 .. MaxSubmits, isValid \in BOOLEAN}

\* handleSubmit up to its first await
EdgeSubmit ==
  /\ form.revision = "edge"
  /\ form.pc = "idle"
  /\ form.submits < MaxSubmits
  /\ form' = IF form.file = null
             THEN [form EXCEPT !.toast = "Please select an MRI image file"]
             ELSE [form EXCEPT !.pc = "edgeSession", !.loading = TRUE,
                               !.submits = @ + 1, !.apiResult = undefined,
                               !.visitData = undefined]
  /\ UNCHANGED <<pureVars, storeVars, req, page, viewVars>>

EdgeSessionReturn ==
  /\ form.pc = "edgeSession"
  /\ \E session \in Sessions :
       form' = IF session = null
               THEN formFailed("Not authenticated")
               ELSE [form EXCEPT !.pc = "invoke", !.session = session]
  /\ UNCHANGED <<pureVars, storeVars, req, page, viewVars>>

\* the function answers; `if (error) throw error`, `if (data.error) throw`,
\* the toast, onSuccess(), finally.  The id of a stored visit is a fresh
\* primary key.
EdgeInvokeReturn ==
  /\ form.pc = "invoke"
  /\ \E out \in InvokeOutcomes :
       /\ out.response.kind = "success" => out.response.visit \notin form.stored
       /\ form' = IF out.response.kind \in {"none", "error"} THEN formFailed(out.message)
               \* a response without a body: data is null, data.error throws
               ELSE IF out.response.kind = "preflight"
               THEN formFailed("Cannot read properties of null (reading 'error')")
               ELSE [form EXCEPT !.pc = "idle", !.loading = FALSE,
                                 !.toast = "Success",
                                 !.onSuccessCalls = @ + 1,
                                 !.stored = @ \cup {out.response.visit}]
  /\ UNCHANGED <<pureVars, storeVars, req, page, viewVars>>

EdgeFormStep ==
  \/ EdgeSubmit
  \/ EdgeSessionReturn
  \/ EdgeInvokeReturn

----------------------------------------------------------------------------
(* Dashboard and PatientProfile: the pages that read the tables *)

noDownload == [kind |-> "", visit |-> 0, rows |-> 0]

\* no page has loaded its data yet
idlePage ==
  [view |-> "none", patient |-> "", patients |-> {}, visits |-> <<>>,
   download |-> noDownload]

\* .order('created_at', { ascending: false })
newestFirst(rows) == [i \in 1..Len(rows) |-> rows[Len(rows) + 1 - i]]

\* .limit(n)
limit(rows, n) == SubSeq(rows, 1, IF Len(rows) < n THEN Len(rows) ELSE n)

\* .from('visits').select('*').eq('patient_id', id)
visitsOf(id) == SelectSeq(visits, LAMBDA v : v.patient_id = id)

\* Dashboard: fetchDashboardData
LoadDashboard ==
  /\ page' = [idlePage EXCEPT !.view = "dashboard",
                              !.patients = DOMAIN patients,
                              !.visits = limit(newestFirst(visits), 5)]
  /\ UNCHANGED <<pureVars, storeVars, req, form, viewVars>>

\* PatientProfile: fetchPatientData for the patient of the route; a failed
\* query (no such patient) is toasted and the page navigates to '/'
LoadProfile ==
  /\ \E id \in UuidSpace :
       page' = IF id \notin DOMAIN patients
               THEN idlePage
               ELSE [idlePage EXCEPT !.view = "profile", !.patient = id,
                                     !.visits = newestFirst(visitsOf(id))]
  /\ UNCHANGED <<pureVars, storeVars, req, form, viewVars>>

\* PatientProfile: downloadJSON(visit) for a visit of the list
DownloadJSON ==
  /\ page.view = "profile"
  /\ \E i \in DOMAIN page.visits :
       page' = [page EXCEPT !.download =
                  [kind |-> "json", visit |-> page.visits[i].id, rows |-> 1]]
  /\ UNCHANGED <<pureVars, storeVars, req, form, viewVars>>

\* PatientProfile: downloadPDF(visit), through the converter or jsPDF
DownloadPDF ==
  /\ page.view = "profile"
  /\ \E i \in DOMAIN page.visits :
       page' = [page EXCEPT !.download =
                  [kind |-> "pdf", visit |-> page.visits[i].id, rows |-> 1]]
  /\ UNCHANGED <<pureVars, storeVars, req, form, viewVars>>

\* ResearchExport: exportAll and exportAnonymized over the page's visits
ExportCSV ==
  /\ page.view = "profile"
  /\ \E kind \in {"visits.csv", "visits_anonymized.csv"} :
       page' = [page EXCEPT !.download =
                  [kind |-> kind, visit |-> 0, rows |-> Len(page.visits)]]
  /\ UNCHANGED <<pureVars, storeVars, req, form, viewVars>>

PageStep ==
  \/ LoadDashboard
  \/ LoadProfile
  \/ DownloadJSON
  \/ DownloadPDF
  \/ ExportCSV

\* the names typed into the new-patient form
NewPatientNames == {"Bo Chen"}

\* the identifiers gen_random_uuid() has not given out at the start
NewPatientIds == {"p9"}

\* the new-patient form: handleSubmit inserts a patient under a fresh id
CreatePatient ==
  /\ \E id \in NewPatientIds \ DOMAIN patients, name \in NewPatientNames :
       patients' = (id :> name) @@ patients
  /\ UNCHANGED <<pureVars, visits, nextVisitId, req, form, page, viewVars>>

cascade_mut(rows, id) == rows

\* patient_id ... REFERENCES patients(id) ON DELETE CASCADE
cascade(rows, id) == SelectSeq(rows, LAMBDA v : v.patient_id # id)

\* DELETE FROM patients WHERE id = ..., by an administrator of the store
DeletePatient ==
  /\ \E id \in DOMAIN patients :
       /\ patients' = [p \in DOMAIN patients \ {id} |-> patients[p]]
       /\ visits' = cascade(visits, id)
  /\ UNCHANGED <<pureVars, nextVisitId, req, form, page, viewVars>>

\* the invocation has answered; the function serves the next request (as
\* long as fewer visits have been stored than Spec has invocations)
NewCall(r) ==
  /\ req[r].pc = "done"
  /\ nextVisitId <= Cardinality(ReqIds)
  /\ req' = [req EXCEPT ![r] = idleReq]
  /\ UNCHANGED <<pureVars, storeVars, form, page, viewVars>>

----------------------------------------------------------------------------
(* InsightsPanel *)

\* JavaScript numbers of the forecast, kept as exact fractions num/den with
\* den > 0 in lowest terms (rounding to binary64 is not modelled here)
RECURSIVE GCD(_, _)
GCD(a, b) == IF b = 0 THEN a ELSE GCD(b, a % b)

Abs(a) == IF a < 0 THEN 0 - a ELSE a

Frac(num, den) ==
  LET g == GCD(Abs(num), Abs(den))
      sg == IF den < 0 THEN 0 - 1 ELSE 1
  IN  [num |-> sg * (num \div g), den |-> sg * (den \div g)]

Whole(i) == [num |-> i, den |-> 1]

\* a + b, a - b, a * b, a / b, a < b
Plus(a, b)  == Frac(a.num * b.den + b.num * a.den, a.den * b.den)
Minus(a, b) == Frac(a.num * b.den - b.num * a.den, a.den * b.den)
Times(a, b) == Frac(a.num * b.num, a.den * b.den)
Over(a, b)  == Frac(a.num * b.den, a.den * b.num)
Less(a, b)  == a.num * b.den < b.num * a.den

\* Math.max(a, b), Math.min(a, b)
max(a, b) == IF Less(a, b) THEN b ELSE a
min(a, b) == IF Less(b, a) THEN b ELSE a

\* series.reduce((acc, p) => acc + f(p), 0) over the terms f(p)
RECURSIVE reduce(_)
reduce(terms) ==
  IF terms = <<>> THEN Whole(0)
  ELSE Plus(reduce(SubSeq(terms, 1, Len(terms) - 1)), terms[Len(terms)])

mapping ==
  [Normal |-> 0, Very_Mild_Dementia |-> 1, Mild_Dementia |-> 2, Moderate_Dementia |-> 3]

mapStageToIndex(stage) ==
  IF Falsy(stage) THEN 0
  ELSE IF stage.s \in DOMAIN mapping THEN mapping[stage.s] ELSE 0

\* [...visits].sort(by created_at): a stable sort, equal times keep their order
RECURSIVE sorted(_)
sorted(vs) ==
  IF vs = <<>> THEN <<>>
  ELSE LET rest == sorted(SubSeq(vs, 1, Len(vs) - 1))
           v    == vs[Len(vs)]
           k    == Cardinality({i \in DOMAIN rest : rest[i].created_at <= v.created_at})
       IN  SubSeq(rest, 1, k) \o <<v>> \o SubSeq(rest, k + 1, Len(rest))

stageSeries(vs) ==
  LET s == sorted(vs)
  IN  [i \in 1..Len(vs) |->
         [idx |-> i - 1, stageIndex |-> mapStageToIndex(s[i].predicted_class)]]

xMean(series) ==
  Over(reduce([i \in DOMAIN series |-> Whole(series[i].idx)]), Whole(Len(series)))

yMean(series) ==
  Over(reduce([i \in DOMAIN series |-> Whole(series[i].stageIndex)]), Whole(Len(series)))

numerator(series) ==
  LET xm == xMean(series)
      ym == yMean(series)
  IN  reduce([i \in DOMAIN series |->
                Times(Minus(Whole(series[i].idx), xm),
                      Minus(Whole(series[i].stageIndex), ym))])

\* ... || 1
denominator(series) ==
  LET xm  == xMean(series)
      sum == reduce([i \in DOMAIN series |->
                       Times(Minus(Whole(series[i].idx), xm),
                             Minus(Whole(series[i].idx), xm))])
  IN  IF sum.num = 0 THEN Whole(1) ELSE sum

slope_mut(series) == numerator(series)

slope(series) == Over(numerator(series), denominator(series))

intercept(series) == Minus(yMean(series), Times(slope(series), xMean(series)))

\* the values of 'Next visit' and '6 months'; empty under two visits
forecastPoints(series) ==
  IF Len(series) >= 2
  THEN LET lastIdx == series[Len(series)].idx
           m       == slope(series)
           c       == intercept(series)
       IN  << Plus(Times(m, Whole(lastIdx + 1)), c),
              Plus(Times(m, Whole(lastIdx + 2)), c) >>
  ELSE <<>>

\* Math.max(0, Math.min(3, value))
clampStage(value) == max(Whole(0), min(Whole(3), value))

\* the Forecast entries of chartData
chartData(series) ==
  LET points == forecastPoints(series)
  IN  [i \in DOMAIN points |-> clampStage(points[i])]

riskProbability_mut(series) ==
  LET points == forecastPoints(series)
  IN  IF points = <<>> THEN null
      ELSE LET current   == series[Len(series)].stageIndex
               projected == clampStage(points[Len(points)])
               delta     == Minus(projected, Whole(current))
           IN  max(Whole(0), min(Whole(1), Over(delta, Whole(3))))

riskProbability(series) ==
  LET points == forecastPoints(series)
  IN  IF points = <<>> THEN null
      ELSE LET current   == series[Len(series)].stageIndex
               projected == clampStage(points[Len(points)])
               delta     == Minus(projected, Whole(current))
           IN  max(Whole(0), min(Whole(1), Over(delta, Whole(2))))

\* JavaScript numbers of the confidence comparison: IEEE 754 binary64 values
\* [sign, exp, sig] standing for sign * 0.sig * 2^exp, sig being the 53 binary
\* digits of the significand, first digit 1 (all 0 for zero); the exponent
\* range is not modelled
zeros(n) == [i \in 1..(IF n < 0 THEN 0 ELSE n) |-> 0]

zero64 == [sign |-> 1, exp |-> 0, sig |-> zeros(53)]

isZero(x) == x.sig = zeros(53)

\* the first 9 * count binary digits of num/den (num < den) and what is left
RECURSIVE digits(_, _, _)
digits(num, den, count) ==
  IF count = 0 THEN [bits |-> <<>>, rem |-> num]
  ELSE LET nine == (512 * num) \div den
           rest == digits((512 * num) % den, den, count - 1)
       IN  [bits |-> [i \in 1..9 |-> (nine \div 2^(9 - i)) % 2] \o rest.bits,
            rem |-> rest.rem]

\* bits + 1, for bits not all 1
increment(bits) ==
  LET last0 == CHOOSE i \in DOMAIN bits :
                 bits[i] = 0 /\ \A j \in DOMAIN bits : j > i => bits[j] = 1
  IN  [i \in DOMAIN bits |-> IF i < last0 THEN bits[i] ELSE IF i = last0 THEN 1 ELSE 0]

\* round to nearest, ties to even: 0.bits * 2^exp (bits[1] = 1), `sticky`
\* telling that the exact value has further non-zero digits
round64(sign, exp, bits, sticky) ==
  LET all   == bits \o zeros(54 - Len(bits))
      keep  == SubSeq(all, 1, 53)
      guard == all[54]
      more  == sticky \/ \E i \in 55..Len(all) : all[i] = 1
      up    == guard = 1 /\ (more \/ keep[53] = 1)
  IN  IF ~up THEN [sign |-> sign, exp |-> exp, sig |-> keep]
      ELSE IF keep = [i \in 1..53 |-> 1]
      THEN [sign |-> sign, exp |-> exp + 1, sig |-> <<1>> \o zeros(52)]
      ELSE [sign |-> sign, exp |-> exp, sig |-> increment(keep)]

\* num/den scaled by a power of two into [1/2, 1)
RECURSIVE normalise(_, _, _)
normalise(num, den, exp) ==
  IF num >= den THEN normalise(num, 2 * den, exp + 1)
  ELSE IF 2 * num < den THEN normalise(2 * num, den, exp - 1)
  ELSE [num |-> num, den |-> den, exp |-> exp]

\* the number the response parser makes of a non-negative decimal n / Unit
binary64(n) ==
  IF n = 0 THEN zero64
  ELSE LET f == normalise(n, Unit, 0)
           d == digits(f.num, f.den, 6)
       IN  round64(1, f.exp, d.bits, d.rem # 0)

\* -x
negate(x) == [x EXCEPT !.sign = 0 - x.sign]

\* a < b for digit strings of equal length
bitsLess(a, b) ==
  \E i \in DOMAIN a : a[i] < b[i] /\ \A j \in 1..(i - 1) : a[j] = b[j]

\* a - b for digit strings of equal length, a >= b: digit i borrows when the
\* digits after it of a are less than those of b
bitsMinus(a, b) ==
  [i \in DOMAIN a |->
     (2 + a[i] - b[i]
        - (IF bitsLess(SubSeq(a, i + 1, Len(a)), SubSeq(b, i + 1, Len(b)))
           THEN 1 ELSE 0)) % 2]

leadingZeros(bits) == Cardinality({i \in DOMAIN bits : \A j \in 1..i : bits[j] = 0})

\* x - y for x, y >= 0: the exact difference, rounded
minus64(x, y) ==
  IF isZero(y) THEN x
  ELSE IF isZero(x) THEN negate(y)
  ELSE LET e  == IF x.exp > y.exp THEN x.exp ELSE y.exp
           a  == zeros(e - x.exp) \o x.sig \o zeros(e - y.exp)
           b  == zeros(e - y.exp) \o y.sig \o zeros(e - x.exp)
           d  == IF bitsLess(a, b) THEN bitsMinus(b, a) ELSE bitsMinus(a, b)
           z  == leadingZeros(d)
       IN  IF z = Len(d) THEN zero64
           ELSE round64(IF bitsLess(a, b) THEN 0 - 1 ELSE 1, e - z,
                        SubSeq(d, z + 1, Len(d)), FALSE)

\* |x| < |y|
magnitudeLess(x, y) ==
  IF isZero(y) THEN FALSE
  ELSE IF isZero(x) THEN TRUE
  ELSE IF x.exp # y.exp THEN x.exp < y.exp
  ELSE bitsLess(x.sig, y.sig)

\* x < y
less64(x, y) ==
  IF isZero(x) /\ isZero(y) THEN FALSE
  ELSE IF x.sign < 0 /\ ~isZero(x)
       THEN IF y.sign < 0 /\ ~isZero(y) THEN magnitudeLess(y, x) ELSE TRUE
  ELSE IF y.sign < 0 /\ ~isZero(y) THEN FALSE
  ELSE magnitudeLess(x, y)

\* latest.confidence - prev.confidence of the two last visits of `sorted`, or
\* null if either is missing
confidenceDrop(vs) ==
  LET n == Len(vs)
      s == sorted(vs)
  IN  IF n >= 2 /\ s[n].confidence \notin {null, undefined}
               /\ s[n - 1].confidence \notin {null, undefined}
      THEN minus64(binary64(s[n].confidence.n), binary64(s[n - 1].confidence.n))
      ELSE null

alertThreshold_mut == negate(binary64(5000))

\* -0.15
alertThreshold == negate(binary64(15000))

\* confidenceDrop != null && confidenceDrop < -0.15
alertShown(vs) ==
  LET drop == confidenceDrop(vs)
  IN  drop # null /\ less64(drop, alertThreshold)

notRendered ==
  [rendered |-> FALSE, forecastPoints |-> <<>>, Forecast |-> <<>>,
   riskProbability |-> null, alert |-> FALSE]

\* one render of the component with the props `panel.visits`
Render ==
  /\ ~panel.out.rendered
  /\ LET series == stageSeries(panel.visits)
     IN  panel' = [panel EXCEPT !.out =
                     [rendered |-> TRUE,
                      forecastPoints |-> forecastPoints(series),
                      Forecast |-> chartData(series),
                      riskProbability |-> riskProbability(series),
                      alert |-> alertShown(panel.visits)]]
  /\ UNCHANGED <<pureVars, storeVars, req, form, page, dashboard, research, report, pdf>>

----------------------------------------------------------------------------
(* Dashboard with analytics *)

DigitChars == <<"0", "1", "2", "3", "4", "5", "6", "7", "8", "9">>

\* String(i) for an integer i >= 0
RECURSIVE decimal(_)
decimal(i) ==
  IF i < 10 THEN DigitChars[i + 1] ELSE decimal(i \div 10) \o DigitChars[(i % 10) + 1]

\* new Date(created_at).toLocaleDateString() in an en-US browser; creation
\* time t stands for day t of August 2025
toLocaleDateString(t) == "8/" \o decimal(t) \o "/2025"

\* (x * 100).toFixed(1) for x a multiple of 0.001
percentFixed1(x) ==
  LET tenths == (x + 50) \div 100
  IN  decimal(tenths \div 10) \o "." \o decimal(tenths % 10)

\* cells.join(',')
RECURSIVE join(_, _)
join(cells, sep) ==
  IF cells = <<>> THEN ""
  ELSE IF Len(cells) = 1 THEN cells[1]
  ELSE join(SubSeq(cells, 1, Len(cells) - 1), sep) \o sep \o cells[Len(cells)]

processedVisits(allVisits) ==
  SelectSeq(allVisits, LAMBDA v : ~Falsy(v.predicted_class) /\ ~Falsy(v.confidence))

\* acc[stage] = (acc[stage] || 0) + 1 over the processed visits
stageDistribution(processed) ==
  LET stage(i) == OrElse(processed[i].predicted_class, Str("Unknown")).s
  IN  [c \in {stage(i) : i \in DOMAIN processed} |->
         Cardinality({i \in DOMAIN processed : stage(i) = c})]

stageData(processed) ==
  LET counts == stageDistribution(processed)
  IN  [c \in DOMAIN counts |->
         [count |-> counts[c],
          percentage |-> Times(Over(Whole(counts[c]), Whole(Len(processed))), Whole(100))]]

\* calculateMetrics, but for the weekly trend, which depends on the time of
\* the render
calculateMetrics(allVisits) ==
  LET processed == processedVisits(allVisits)
      low == Cardinality({i \in DOMAIN processed :
                            OrElse(processed[i].confidence, Num(0)).n < 8 * (Unit \div 10)})
  IN  [totalScans |-> Len(allVisits),
       avgConfidence |->
         IF Len(processed) > 0
         THEN Times(Over(reduce([i \in DOMAIN processed |->
                                   Frac(OrElse(processed[i].confidence, Num(0)).n, Unit)]),
                         Whole(Len(processed))),
                    Whole(100))
         ELSE Whole(0),
       stageData |-> stageData(processed),
       hasAlerts |-> low > 0,
       lowConfidenceScans |-> low]

noMetrics == [calculated |-> FALSE]

\* the rows of exportCSV's csvData
csvData(allVisits) ==
  [i \in DOMAIN allVisits |->
     << toLocaleDateString(allVisits[i].created_at),
        allVisits[i].patient_id,
        OrElse(allVisits[i].predicted_class, Str("Processing")).s,
        IF Falsy(allVisits[i].confidence) THEN "N/A"
        ELSE percentFixed1(allVisits[i].confidence.n) \o "%",
        "N/A" >>]

noExport == [kind |-> "none", name |-> "", text |-> ""]

\* Dashboard: exportCSV; Object.keys(csvData[0]) throws when there is no visit
exportCSV(allVisits) ==
  IF allVisits = <<>> THEN [kind |-> "TypeError", name |-> "", text |-> ""]
  ELSE [kind |-> "download", name |-> "mri-analysis-data.csv",
        text |-> join(<<join(<<"Date", "PatientID", "Stage", "Confidence",
                               "ProcessingTime">>, ",")>>
                      \o [i \in DOMAIN allVisits |-> join(csvData(allVisits)[i], ",")],
                      "\n")]

\* a render of the dashboard: const metrics = calculateMetrics()
RenderDashboard ==
  /\ ~dashboard.metrics.calculated
  /\ dashboard' = [dashboard EXCEPT !.metrics =
                      [calculated |-> TRUE] @@ calculateMetrics(dashboard.allVisits)]
  /\ UNCHANGED <<pureVars, storeVars, req, form, page, panel, research, report, pdf>>

\* the Export Data button
ExportData ==
  /\ dashboard.file = noExport
  /\ dashboard' = [dashboard EXCEPT !.file = exportCSV(dashboard.allVisits)]
  /\ UNCHANGED <<pureVars, storeVars, req, form, page, panel, research, report, pdf>>

----------------------------------------------------------------------------
(* ResearchExport *)

\* new Date(created_at).toISOString(); creation time t stands for 10:00 UTC
\* on day t of August 2025
toISOString(t) ==
  "2025-08-" \o (IF t < 10 THEN "0" ELSE "") \o decimal(t) \o "T10:00:00.000Z"

\* the characters of a string inside a JSON string literal
RECURSIVE escape(_)
escape(t) ==
  IF t = "" THEN ""
  ELSE (IF Head(t) = "\"" THEN "\\\""
        ELSE IF Head(t) = "\\" THEN "\\\\"
        ELSE IF Head(t) = "\n" THEN "\\n"
        ELSE IF Head(t) = "\t" THEN "\\t"
        ELSE IF Head(t) = "\r" THEN "\\r"
        ELSE Head(t)) \o escape(Tail(t))

\* the digits after the decimal point of frac / Unit, trailing zeros dropped
RECURSIVE fraction(_, _)
fraction(frac, scale) ==
  IF frac = 0 THEN ""
  ELSE decimal(frac \div (scale \div 10)) \o fraction(frac % (scale \div 10), scale \div 10)

\* String(x) for a finite number x = n / Unit
numberToString(n) ==
  (IF n < 0 THEN "-" ELSE "") \o decimal(Abs(n) \div Unit)
    \o (IF Abs(n) % Unit = 0 THEN "" ELSE "." \o fraction(Abs(n) % Unit, Unit))

\* JSON.stringify(v) for a string, a finite number or null
stringify(v) ==
  IF v.k = "string" THEN "\"" \o escape(v.s) \o "\""
  ELSE IF IsFiniteNum(v) THEN numberToString(v.n)
  ELSE "null"

\* a ?? b
Coalesce(a, b) == IF a \in {null, undefined} THEN b ELSE a

\* r[h] for a row given as its <<key, value>> pairs in insertion order
field(r, h) ==
  IF \E i \in DOMAIN r : r[i][1] = h
  THEN r[CHOOSE i \in DOMAIN r : r[i][1] = h][2]
  ELSE undefined

toCSV(rows) ==
  IF Len(rows) = 0 THEN ""
  ELSE LET headers == [i \in DOMAIN rows[1] |-> rows[1][i][1]]
       IN  join(<<join(headers, ",")>>
                \o [k \in DOMAIN rows |->
                      join([i \in DOMAIN headers |->
                              stringify(Coalesce(field(rows[k], headers[i]), Str("")))],
                           ",")],
                "\n")

\* v.insights ? v.insights.length : 0
insights_len(v) == IF Falsy(v.insights) THEN Num(0) ELSE Num(Len(v.insights.s) * Unit)

exportAll(vs) ==
  [kind |-> "download", name |-> "visits.csv",
   text |-> toCSV([i \in DOMAIN vs |->
                     << <<"date", Str(toISOString(vs[i].created_at))>>,
                        <<"patient_id", Str(vs[i].patient_id)>>,
                        <<"stage", OrElse(vs[i].predicted_class, Str(""))>>,
                        <<"confidence", Coalesce(vs[i].confidence, Str(""))>>,
                        <<"insights_len", insights_len(vs[i])>> >>])]

exportAnonymized_mut(vs) ==
  [kind |-> "download", name |-> "visits_anonymized.csv",
   text |-> toCSV([i \in DOMAIN vs |->
                     << <<"anon_id", Str("P" \o vs[i].patient_id)>>,
                        <<"date", Str(toISOString(vs[i].created_at))>>,
                        <<"stage", OrElse(vs[i].predicted_class, Str(""))>>,
                        <<"confidence", Coalesce(vs[i].confidence, Str(""))>>,
                        <<"insights_len", insights_len(vs[i])>> >>])]

exportAnonymized(vs) ==
  [kind |-> "download", name |-> "visits_anonymized.csv",
   text |-> toCSV([i \in DOMAIN vs |->
                     << <<"anon_id", Str("P" \o decimal(i))>>,
                        <<"date", Str(toISOString(vs[i].created_at))>>,
                        <<"stage", OrElse(vs[i].predicted_class, Str(""))>>,
                        <<"confidence", Coalesce(vs[i].confidence, Str(""))>>,
                        <<"insights_len", insights_len(vs[i])>> >>])]

\* the Export CSV button
ExportAll ==
  /\ research.file = noExport
  /\ research' = [research EXCEPT !.file = exportAll(research.visits)]
  /\ UNCHANGED <<pureVars, storeVars, req, form, page, panel, dashboard, report, pdf>>

\* the Export Anonymized CSV button
ExportAnonymized ==
  /\ research.file = noExport
  /\ research' = [research EXCEPT !.file = exportAnonymized(research.visits)]
  /\ UNCHANGED <<pureVars, storeVars, req, form, page, panel, dashboard, report, pdf>>

----------------------------------------------------------------------------
(* JSON report downloads *)

\* the milliseconds the clock may advance, and the downloads made of a visit
MaxClock == 2

MaxDownloads == 2

RECURSIVE spaces(_)
spaces(n) == IF n = 0 THEN "" ELSE " " \o spaces(n - 1)

\* JSON.stringify(object, null, 2) of an object nested `depth` deep, given
\* its <<key, text of the value>> pairs
object(depth, members) ==
  IF members = <<>> THEN "{}"
  ELSE "{\n"
       \o join([i \in DOMAIN members |->
                  spaces(2 * (depth + 1)) \o "\"" \o members[i][1] \o "\": "
                    \o members[i][2]],
               ",\n")
       \o "\n" \o spaces(2 * depth) \o "}"

\* created_at as the store's API returns it; t stands for day t of August 2025
timestamptz(t) ==
  "2025-08-" \o (IF t < 10 THEN "0" ELSE "") \o decimal(t) \o "T10:00:00+00:00"

\* new Date().toISOString(), `now` milliseconds after noon of 2025-08-10
nowISOString(now) ==
  "2025-08-10T12:00:00."
    \o (IF now < 100 THEN "0" ELSE "") \o (IF now < 10 THEN "0" ELSE "") \o decimal(now)
    \o "Z"

\* t.replace(/\s+/g, '-')
RECURSIVE dashed(_)
dashed(t) ==
  IF t = "" THEN ""
  ELSE IF Head(t) \in Whitespace THEN "-" \o dashed(skipWhitespace(t))
  ELSE Head(t) \o dashed(Tail(t))

\* JSON.stringify of a raw_report, an object of booleans, nested `depth` deep
reportText(raw, depth) ==
  IF raw = null THEN "null"
  ELSE object(depth, [i \in DOMAIN raw |->
                        <<raw[i][1], IF raw[i][2] THEN "true" ELSE "false">>])

downloadJSON_mut(visit, patient, now) ==
  [name |-> "mri-report-" \o dashed(patient.name.s) \o "-"
              \o SubSeq(toISOString(visit.created_at), 1, 10) \o ".json",
   text |-> object(0, <<
     <<"patient", object(1, <<
         <<"name", stringify(patient.name)>>,
         <<"dateOfBirth", stringify(patient.date_of_birth)>>,
         <<"medicalRecordNumber", stringify(patient.medical_record_number)>> >>)>>,
     <<"scan", object(1, <<
         <<"date", stringify(Str(nowISOString(now)))>>,
         <<"predictedClass", stringify(visit.predicted_class)>>,
         <<"confidence", stringify(visit.confidence)>>,
         <<"insights", stringify(visit.insights)>> >>)>>,
     <<"metadata", object(1, <<
         <<"visitId", stringify(Str(visit.id))>>,
         <<"generatedAt", stringify(Str(nowISOString(now)))>> >>)>> >>)]

\* PatientProfile (second revision): downloadJSON
downloadJSON(visit, patient, now) ==
  [name |-> "mri-report-" \o dashed(patient.name.s) \o "-"
              \o SubSeq(toISOString(visit.created_at), 1, 10) \o ".json",
   text |-> object(0, <<
     <<"patient", object(1, <<
         <<"name", stringify(patient.name)>>,
         <<"dateOfBirth", stringify(patient.date_of_birth)>>,
         <<"medicalRecordNumber", stringify(patient.medical_record_number)>> >>)>>,
     <<"scan", object(1, <<
         <<"date", stringify(Str(timestamptz(visit.created_at)))>>,
         <<"predictedClass", stringify(visit.predicted_class)>>,
         <<"confidence", stringify(visit.confidence)>>,
         <<"insights", stringify(visit.insights)>> >>)>>,
     <<"metadata", object(1, <<
         <<"visitId", stringify(Str(visit.id))>>,
         <<"generatedAt", stringify(Str(nowISOString(now)))>> >>)>> >>)]

\* PatientProfile (first revision): downloadReport
downloadReport(visit) ==
  [name |-> "mri-report-" \o SubSeq(toISOString(visit.created_at), 1, 10) \o ".json",
   text |-> object(0, <<
     <<"visitId", stringify(Str(visit.id))>>,
     <<"patientId", stringify(Str(visit.patient_id))>>,
     <<"date", stringify(Str(timestamptz(visit.created_at)))>>,
     <<"predictedClass", stringify(visit.predicted_class)>>,
     <<"confidence", stringify(visit.confidence)>>,
     <<"insights", stringify(visit.insights)>>,
     <<"fullReport", reportText(visit.raw_report, 1)>> >>)]

\* time passes
Tick ==
  /\ report.now < MaxClock
  /\ report' = [report EXCEPT !.now = report.now + 1]
  /\ UNCHANGED <<pureVars, storeVars, req, form, page, panel, dashboard, research, pdf>>

\* the JSON button of a visit row
DownloadJSONFile ==
  /\ Len(report.files) < MaxDownloads
  /\ report' = [report EXCEPT !.files =
                   Append(report.files,
                          [by |-> "downloadJSON"]
                            @@ downloadJSON(report.visit, report.patient, report.now))]
  /\ UNCHANGED <<pureVars, storeVars, req, form, page, panel, dashboard, research, pdf>>

\* the download button of the first revision
DownloadReportFile ==
  /\ Len(report.files) < MaxDownloads
  /\ report' = [report EXCEPT !.files =
                   Append(report.files,
                          [by |-> "downloadReport"] @@ downloadReport(report.visit))]
  /\ UNCHANGED <<pureVars, storeVars, req, form, page, panel, dashboard, research, pdf>>

-----------------------------------------------------------------------------
(* PatientProfile: the local PDF fallback *)

MaxPdfHeight == 900

\* the height of an A4 page in mm, as the loop has it
A4 == 297

\* new jsPDF('p', 'mm', 'a4') and the height the rendered image will have on
\* the page, in mm.  `pages` holds, page by page, the vertical offset the
\* image was placed at.
newPdf(pdfHeight) ==
  [pc |-> "addImage", pdfHeight |-> pdfHeight, remainingHeight |-> 0,
   position |-> 0, pages |-> <<>>, saved |-> FALSE]

\* pdf.addImage(imgData, 'PNG', 0, 0, ...) on the first page, and the
\* initialisation of the loop
AddImage ==
  /\ pdf.pc = "addImage"
  /\ pdf' = IF pdf.pdfHeight > A4
            THEN [pdf EXCEPT !.pc = "while", !.pages = <<0>>,
                             !.remainingHeight = pdf.pdfHeight,
                             !.position = 0 - A4]
            ELSE [pdf EXCEPT !.pc = "save", !.pages = <<0>>]
  /\ UNCHANGED <<pureVars, storeVars, req, form, page, panel, dashboard, research, report>>

\* one turn of the while loop
AddPage ==
  /\ pdf.pc = "while"
  /\ pdf.remainingHeight > 0
  /\ pdf' = [pdf EXCEPT !.position = @ - A4,
                        !.pages = Append(@, pdf.position - A4),
                        !.remainingHeight = @ - A4]
  /\ UNCHANGED <<pureVars, storeVars, req, form, page, panel, dashboard, research, report>>

\* the loop is left, or was never entered: pdf.save(filename)
SavePdf ==
  /\ \/ pdf.pc = "save"
     \/ pdf.pc = "while" /\ ~(pdf.remainingHeight > 0)
  /\ pdf' = [pdf EXCEPT !.pc = "done", !.saved = TRUE]
  /\ UNCHANGED <<pureVars, storeVars, req, form, page, panel, dashboard, research, report>>

-----------------------------------------------------------------------------
(* Specifications *)

InitPure ==
  /\ apiClass = undefined
  /\ mapResult = undefined
  /\ confidences = undefined
  /\ confidence = undefined

InitStore ==
  /\ patients = ("p1" :> "Ann Lee") @@ ("p2" :> "")
  /\ visits = <<>>
  /\ nextVisitId = 1

InitHandler == req = [r \in ReqIds |-> idleReq]

InitForm == form = idleForm

InitPage == page = idlePage

InitPanel == panel = [visits |-> <<>>, out |-> notRendered]

InitDashboard == dashboard = [allVisits |-> <<>>, metrics |-> noMetrics, file |-> noExport]

InitResearch == research = [visits |-> <<>>, file |-> noExport]

InitReport ==
  report = [patient |-> null, visit |-> null, now |-> 0, files |-> <<>>]

InitPdf == pdf = newPdf(0)

InitViews == InitPanel /\ InitDashboard /\ InitResearch /\ InitReport /\ InitPdf

\* the process-mri function serving concurrent requests
Init == InitPure /\ InitStore /\ InitHandler /\ InitForm /\ InitPage /\ InitViews

Next == \E r \in ReqIds : HandlerStep(r)

Spec == Init /\ [][Next]_vars

\* the upload form, submitting up to MaxSubmits times
NextForm == FormStep

SpecForm == Init /\ [][NextForm]_vars

\* the upload form in either of its revisions; every await settles
InitUpload ==
  /\ InitPure /\ InitStore /\ InitHandler /\ InitPage /\ InitViews
  /\ form \in {idleForm, [idleForm EXCEPT !.revision = "edge"]}

NextUpload == FormStep \/ EdgeFormStep

FairUpload ==
  /\ WF_vars(FormSessionReturn) /\ WF_vars(FormFetchReturn) /\ WF_vars(FormInsertReturn)
  /\ WF_vars(EdgeSessionReturn) /\ WF_vars(EdgeInvokeReturn)

SpecUpload == InitUpload /\ [][NextUpload]_vars /\ FairUpload

\* the application in use: ingestion calls one after the other, page loads,
\* downloads and exports
AppCalls == {"r1"}

NextApp ==
  \/ \E r \in AppCalls : HandlerStep(r)
  \/ \E r \in AppCalls : NewCall(r)
  \/ PageStep

SpecApp == Init /\ [][NextApp]_vars

\* the store under ingestion calls, patient creations and patient deletions
NextStore ==
  \/ \E r \in AppCalls : HandlerStep(r)
  \/ \E r \in AppCalls : NewCall(r)
  \/ CreatePatient
  \/ DeletePatient

SpecStore == Init /\ [][NextStore]_vars

\* the normalizer alone
InitMap ==
  /\ apiClass \in {Str(l) : l \in Labels} \cup {null}
  /\ mapResult = undefined
  /\ confidences = undefined
  /\ confidence = undefined
  /\ InitStore /\ InitHandler /\ InitForm /\ InitPage /\ InitViews

CallMap ==
  /\ mapResult = undefined
  /\ mapResult' = mapToDementiaStage(apiClass)
  /\ UNCHANGED <<apiClass, confidences, confidence, storeVars, req, form, page, viewVars>>

NextMap == CallMap

SpecMap == InitMap /\ [][NextMap]_vars

\* the confidence extraction alone
InitConf ==
  /\ confidences \in ConfObjects \cup {undefined, null}
  /\ confidence = undefined
  /\ apiClass = undefined
  /\ mapResult = undefined
  /\ InitStore /\ InitHandler /\ InitForm /\ InitPage /\ InitViews

CallExtract ==
  /\ confidence = undefined
  /\ confidence' = extractConfidence(confidences)
  /\ UNCHANGED <<apiClass, mapResult, confidences, storeVars, req, form, page, viewVars>>

NextConf == CallExtract

SpecConf == InitConf /\ [][NextConf]_vars

\* InsightsPanel alone, rendered once with a patient's visits as props
MaxPanelVisits == 3

CreationTimes == 1..2

\* visit histories that differ in stage, and ones that differ in confidence
StageHistories ==
  UNION {[1..n -> [created_at : CreationTimes,
                   predicted_class : {Str(c) : c \in DementiaStageEnum} \cup {null},
                   confidence : {null}]] : n \in 0..MaxPanelVisits}

PanelConfidences == {null, Num(80000), Num(85000), Num(95000), Num(100000)}

ConfidenceHistories ==
  UNION {[1..n -> [created_at : CreationTimes,
                   predicted_class : {Str("Mild_Dementia")},
                   confidence : PanelConfidences]] : n \in 0..MaxPanelVisits}

InitInsights ==
  /\ panel \in [visits : StageHistories \cup ConfidenceHistories, out : {notRendered}]
  /\ InitPure /\ InitStore /\ InitHandler /\ InitForm /\ InitPage /\ InitDashboard /\ InitResearch /\ InitReport
  /\ InitPdf

NextInsights == Render

SpecInsights == InitInsights /\ [][NextInsights]_vars

\* the dashboard alone, over what fetchDashboardData may have loaded
MaxDashboardVisits == 3

DashboardConfidences == {null, Num(0), Num(85000)}

DashboardVisits ==
  UNION {[1..n -> [created_at : {9}, patient_id : {"p1"},
                   predicted_class : {Str(c) : c \in DementiaStageEnum} \cup {null},
                   confidence : DashboardConfidences]] : n \in 0..MaxDashboardVisits}

InitAnalytics ==
  /\ dashboard \in [allVisits : DashboardVisits, metrics : {noMetrics}, file : {noExport}]
  /\ InitPure /\ InitStore /\ InitHandler /\ InitForm /\ InitPage /\ InitPanel /\ InitResearch /\ InitReport
  /\ InitPdf

NextAnalytics == RenderDashboard \/ ExportData

SpecAnalytics == InitAnalytics /\ [][NextAnalytics]_vars

\* ResearchExport alone, over the visits of one patient as process-mri stores
\* them
MaxExportVisits == 2

ExportPatients == {"p1", "p2"}

\* insights as the upload form stores them, and as process-mri does
ExportInsights ==
  {null, Str("Stable, re-scan yearly."),
   personalizeInsights(Str("Stable, re-scan yearly."), Str("Ann Lee"))}

ExportVisits ==
  UNION {[1..n -> [created_at : {9}, patient_id : {q},
                   predicted_class : {Str("Mild_Dementia"), null},
                   confidence : {Num(85000), null},
                   insights : ExportInsights]] :
           n \in 0..MaxExportVisits, q \in ExportPatients}

InitExport ==
  /\ research \in [visits : ExportVisits, file : {noExport}]
  /\ InitPure /\ InitStore /\ InitHandler /\ InitForm /\ InitPage /\ InitPanel
  /\ InitDashboard /\ InitReport /\ InitPdf

NextExport == ExportAll \/ ExportAnonymized

SpecExport == InitExport /\ [][NextExport]_vars

\* the JSON downloads of one visit of the patient profile
ReportPatients ==
  [name : {Str("Ann  Lee")}, date_of_birth : {Str("1950-01-01")},
   medical_record_number : {null, Str("MRN-1")}]

ReportVisits ==
  [id : {"v1"}, patient_id : {"p1"}, created_at : {9},
   predicted_class : {null, Str("Mild_Dementia")},
   confidence : {null, Num(85000)},
   insights : {null, Str("Stable.\nSay \"re-scan\".")},
   raw_report : {null, << <<"isMRI", TRUE>> >>}]

InitReports ==
  /\ report \in [patient : ReportPatients, visit : ReportVisits, now : {0}, files : {<<>>}]
  /\ InitPure /\ InitStore /\ InitHandler /\ InitForm /\ InitPage /\ InitPanel
  /\ InitDashboard /\ InitResearch /\ InitPdf

NextReports == Tick \/ DownloadJSONFile \/ DownloadReportFile

SpecReports == InitReports /\ [][NextReports]_vars

\* the local PDF fallback on rendered images of every height up to MaxPdfHeight
InitPdfs ==
  /\ pdf \in {newPdf(h) : h \in 1 .. MaxPdfHeight}
  /\ InitPure /\ InitStore /\ InitHandler /\ InitForm /\ InitPage /\ InitPanel
  /\ InitDashboard /\ InitResearch /\ InitReport

NextPdf == AddImage \/ AddPage \/ SavePdf

SpecPdf == InitPdfs /\ [][NextPdf]_vars /\ WF_vars(NextPdf)

----------------------------------------------------------------------------
(* Properties of the stage normalizer (SpecMap) *)

RECURSIVE LowerCased(_)
LowerCased(t) ==
  IF t = "" THEN ""
  ELSE LET c == Head(t)
       IN  (IF c \in DOMAIN UpperToLower THEN UpperToLower[c] ELSE c) \o LowerCased(Tail(t))

Contains(t, part) ==
  \E i \in 0..(Len(t) - Len(part)) : SubSeq(t, i + 1, i + Len(part)) = part

RECURSIVE WhitespaceNormalized(_)
WhitespaceNormalized(t) ==
  IF t = "" THEN ""
  ELSE IF Head(t) \in Whitespace
       THEN (IF Len(t) > 1 /\ Head(Tail(t)) \in Whitespace THEN "" ELSE "_")
            \o WhitespaceNormalized(Tail(t))
       ELSE Head(t) \o WhitespaceNormalized(Tail(t))

ExactKeys == {"Non Demented", "Very Mild Dementia", "Mild Dementia", "Moderate Dementia"}

\* the label did not hit the exact-match table and the call has returned
Unmapped == mapResult # undefined /\ apiClass.k = "string" /\ apiClass.s \notin ExactKeys

\* C1: the four labels of the exact-match table map to Normal,
\* Very_Mild_Dementia, Mild_Dementia and Moderate_Dementia respectively.
C1_ExactMatchTable ==
  mapResult # undefined =>
    /\ apiClass = Str("Non Demented") => mapResult = Str("Normal")
    /\ apiClass = Str("Very Mild Dementia") => mapResult = Str("Very_Mild_Dementia")
    /\ apiClass = Str("Mild Dementia") => mapResult = Str("Mild_Dementia")
    /\ apiClass = Str("Moderate Dementia") => mapResult = Str("Moderate_Dementia")

C1_Witness == apiClass = Str("Mild Dementia") /\ mapResult = Str("Mild_Dementia")

\* C2 as stated: an unmapped label containing "moderate" (any case) gives
\* Moderate_Dementia, and one containing "very mild" or "very_mild" gives
\* Very_Mild_Dementia, whatever else the label contains.
C2_Original ==
  Unmapped =>
    LET t == LowerCased(apiClass.s)
    IN  /\ Contains(t, "moderate") => mapResult = Str("Moderate_Dementia")
        /\ (Contains(t, "very mild") \/ Contains(t, "very_mild"))
             => mapResult = Str("Very_Mild_Dementia")

\* C2 amended: an unmapped label containing "moderate" and none of "normal",
\* "non", "mild" gives Moderate_Dementia; an unmapped label containing
\* "very mild" or "very_mild" and none of "normal", "non", "milddementia",
\* "moderatedementia" gives Very_Mild_Dementia although it contains "mild".
C2_KeywordPrecedence ==
  Unmapped =>
    LET t == LowerCased(apiClass.s)
    IN  /\ (Contains(t, "moderate") /\ ~Contains(t, "normal") /\ ~Contains(t, "non")
              /\ ~Contains(t, "mild"))
             => mapResult = Str("Moderate_Dementia")
        /\ ((Contains(t, "very mild") \/ Contains(t, "very_mild"))
              /\ ~Contains(t, "normal") /\ ~Contains(t, "non")
              /\ ~Contains(t, "milddementia") /\ ~Contains(t, "moderatedementia"))
             => mapResult = Str("Very_Mild_Dementia")

C2_Witness ==
  apiClass = Str("very mild dementia") /\ mapResult = Str("Very_Mild_Dementia")

\* C3: a non-empty label whose lower-cased, whitespace-normalized text
\* contains none of "normal", "non", "mild", "moderate" maps to null.
C3_NullWithoutKeyword ==
  (mapResult # undefined /\ apiClass.k = "string" /\ apiClass.s # "") =>
    LET t == WhitespaceNormalized(LowerCased(apiClass.s))
    IN  (~Contains(t, "normal") /\ ~Contains(t, "non") /\ ~Contains(t, "mild")
           /\ ~Contains(t, "moderate"))
          => mapResult = null

\* C4: an unmapped label containing "mild" but none of "very", "normal",
\* "non" maps to Mild_Dementia.
C4_MildWithoutVery ==
  Unmapped =>
    LET t == LowerCased(apiClass.s)
    IN  (Contains(t, "mild") /\ ~Contains(t, "very") /\ ~Contains(t, "normal")
           /\ ~Contains(t, "non"))
          => mapResult = Str("Mild_Dementia")

----------------------------------------------------------------------------
(* Properties of the confidence extraction (SpecConf) *)

ConfEntries == IF confidences.k = "object" THEN confidences.vals ELSE <<>>

HasEntry(v) == \E i \in DOMAIN ConfEntries : ConfEntries[i] = v

FiniteEntries ==
  {ConfEntries[i].n :
     i \in {j \in DOMAIN ConfEntries : ConfEntries[j].k = "number" /\ ConfEntries[j].s = ""}}

\* the result is the largest of the finite entries, brought into [0,1] and
\* rounded to a multiple of 10^-4
IsClampedRoundedMax(v) ==
  /\ v.k = "number" /\ v.s = ""
  /\ v.n % 10 = 0 /\ 0 <= v.n /\ v.n <= 100000
  /\ \E m \in FiniteEntries :
       /\ \A x \in FiniteEntries : x <= m
       /\ LET c == IF m < 0 THEN 0 ELSE IF m > 100000 THEN 100000 ELSE m
          IN  v.n - c <= 5 /\ c - v.n <= 5

----------------------------------------------------------------------------
(* Properties of the ingestion paths (Spec, SpecForm) *)

\* the rows that process-mri and the upload form have handed to the store
SubmittedRows ==
  {serializeVisit(req[r].visitData) : r \in {x \in ReqIds : req[x].visitData # undefined}}
  \cup (IF form.visitData # undefined THEN {serializeVisit(form.visitData)} ELSE {})

\* C6: every row submitted for insert has predicted_class null or one of
\* the four enum values.
C6_SubmittedStageInEnum ==
  \A row \in SubmittedRows :
    \/ row.predicted_class = null
    \/ row.predicted_class.k = "string" /\ row.predicted_class.s \in DementiaStageEnum

\* C7: every row submitted for insert has confidence null or within [0,1].
C7_SubmittedConfidenceInRange ==
  \A row \in SubmittedRows :
    \/ row.confidence = null
    \/ /\ row.confidence.k = "number" /\ row.confidence.s = ""
       /\ 0 <= row.confidence.n /\ row.confidence.n <= 100000

\* C8: a call issues at most one classifier call and at most one insert, the
\* insert only after the classifier answered; a call that answers success
\* has stored exactly one row, the one it reports, and a call that answers
\* an error has stored none; every row of the table was stored by a call.
C8_AllOrNothing ==
  /\ \A r \in ReqIds :
       /\ req[r].fetches <= 1 /\ req[r].inserts <= 1
       /\ Cardinality(req[r].stored) <= req[r].inserts
       /\ req[r].inserts = 1 => (req[r].fetches = 1 /\ req[r].apiResult # undefined)
       /\ req[r].response.kind = "success" =>
            /\ req[r].inserts = 1
            /\ req[r].stored = {req[r].response.visit}
            /\ \E i \in DOMAIN visits : visits[i].id = req[r].response.visit
       /\ req[r].response.kind = "error" => req[r].stored = {}
  /\ \A i \in DOMAIN visits : \E r \in ReqIds : visits[i].id \in req[r].stored
  /\ \A i, j \in DOMAIN visits : visits[i].id = visits[j].id => i = j

C8_Witness ==
  \E r, q \in ReqIds :
    /\ req[r].response.kind = "success" /\ Cardinality(req[r].stored) = 1
    /\ req[q].response.kind = "error" /\ req[q].inserts = 1 /\ req[q].stored = {}

\* the headers whose bearer token belongs to a user
ResolvableHeaders == {Str("Bearer tok-u1"), Str("Bearer tok-u2")}

Untouched(r) ==
  req[r].bodyReads = 0 /\ req[r].fetches = 0 /\ req[r].inserts = 0 /\ req[r].stored = {}

\* C9 as stated: every request without an Authorization header, or with a
\* token that resolves to no user, ends in an error response with no body
\* read, no classifier call and no insert.
C9_Original ==
  \A r \in ReqIds :
    (req[r].pc # "idle" /\ req[r].authHeader \notin ResolvableHeaders) =>
      /\ Untouched(r)
      /\ req[r].pc = "done" => req[r].response.kind = "error"

\* C9 amended: the same for every request other than a CORS preflight
\* (method OPTIONS), also when the auth service fails to resolve a good
\* token; a preflight is answered 200 with an empty body without looking at
\* the Authorization header, and likewise reads no body, calls no classifier
\* and inserts nothing.
C9_Unauthenticated ==
  \A r \in ReqIds :
    /\ (req[r].method = "POST" /\ req[r].pc = "done" /\ req[r].user = null) =>
         /\ Untouched(r)
         /\ req[r].response.kind = "error"
         /\ req[r].response.error \in {"No authorization header", "Unauthorized"}
    /\ (req[r].method = "POST" /\ req[r].authHeader \notin ResolvableHeaders) =>
         /\ Untouched(r)
         /\ req[r].pc \in {"start", "getUser", "done"}
    /\ (req[r].method = "OPTIONS" /\ req[r].pc = "done") =>
         Untouched(r) /\ req[r].response = preflightResponse

C9_Witness ==
  \E r, q \in ReqIds :
    /\ req[r].method = "POST" /\ req[r].authHeader = Str("Bearer expired")
    /\ req[r].response.error = "Unauthorized"
    /\ req[q].method = "POST" /\ req[q].authHeader = null
    /\ req[q].response.error = "No authorization header"

\* C10: once an authenticated request's form data turned out to lack the
\* file or the patient identifier, the call has ended in a validation
\* error, without a classifier call and without a stored visit.
C10_ValidationError ==
  \A r \in ReqIds :
    (/\ req[r].user # null
     /\ req[r].body.ok
     /\ (req[r].body.file = null \/ req[r].body.patientId \in {null, Str("")})) =>
      /\ req[r].pc = "done"
      /\ req[r].response.kind = "error"
      /\ req[r].response.error \in {"No file provided", "No patient ID provided"}
      /\ req[r].fetches = 0 /\ req[r].inserts = 0 /\ req[r].stored = {}

C10_Witness ==
  \E r, q \in ReqIds :
    /\ req[r].body.ok /\ req[r].body.file # null /\ req[r].body.patientId = null
    /\ req[r].response.error = "No patient ID provided"
    /\ req[q].body.ok /\ req[q].body.file = null
    /\ req[q].response.error = "No file provided"

----------------------------------------------------------------------------
(* Properties of the classifier call and of its branches (Spec) *)

\* the classifier call of r did not succeed: no response, or a non-2xx one
UpstreamFailed(r) ==
  req[r].apiResponse.kind = "networkError" \/
  (req[r].apiResponse.kind = "response" /\ ~req[r].apiResponse.ok)

StoredBy(r) == {visits[i] : i \in {j \in DOMAIN visits : visits[j].id \in req[r].stored}}

\* the classifier answered r that the image is not an MRI
ReportedNotMri(r) ==
  req[r].apiResult # undefined /\ req[r].apiResult.isMRI = false

\* v is the number m in the precision of the confidence column
InColumnPrecision(v, m) ==
  IF m.k = "number" /\ m.s = ""
  THEN v.k = "number" /\ v.s = "" /\ v.n % 10 = 0 /\ v.n - m.n <= 5 /\ m.n - v.n <= 5
  ELSE v = null

\* C12 as stated: a call that was told "not an MRI", and whose insert the
\* store accepted, ends in success with isValid = false and has stored
\* exactly one visit, with predicted_class null, confidence equal to the
\* upstream mriConfidence and insights containing the upstream message.
C12_Original ==
  \A r \in ReqIds :
    (ReportedNotMri(r) /\ req[r].pc = "done" /\ req[r].visitError = "") =>
      /\ req[r].response.kind = "success" /\ req[r].response.isValid = false
      /\ Cardinality(StoredBy(r)) = 1
      /\ \A v \in StoredBy(r) :
           /\ v.predicted_class = null
           /\ v.confidence = req[r].apiResult.mriConfidence
           /\ Contains(v.insights.s, req[r].apiResult.message.s)

\* C12 amended: a call that was told "not an MRI" issues exactly one
\* insert and is never turned away for that reason.  If the store accepts
\* the row, exactly one visit is stored, with predicted_class null,
\* confidence the upstream mriConfidence in the column's precision of four
\* decimals (null if absent) and insights containing the upstream message,
\* and the answer is success with isValid = false.  If the store rejects
\* the insert (unknown patient, confidence out of the column's range, store
\* failure) the answer is the storage error and nothing is recorded.
C12_NonMriRecorded ==
  \A r \in ReqIds :
    (ReportedNotMri(r) /\ req[r].pc = "done") =>
      /\ req[r].inserts = 1
      /\ req[r].visitError = "" =>
           /\ req[r].response.kind = "success" /\ req[r].response.isValid = false
           /\ Cardinality(StoredBy(r)) = 1
           /\ \A v \in StoredBy(r) :
                /\ v.id = req[r].response.visit
                /\ v.patient_id = req[r].body.patientId.s
                /\ v.predicted_class = null
                /\ InColumnPrecision(v.confidence, req[r].apiResult.mriConfidence)
                /\ Contains(v.insights.s, req[r].apiResult.message.s)
      /\ req[r].visitError # "" =>
           /\ req[r].response.kind = "error"
           /\ Contains(req[r].response.error, "Failed to save visit data for non-MRI")
           /\ StoredBy(r) = {}

C12_Witness ==
  \E r, q \in ReqIds :
    /\ ReportedNotMri(r) /\ req[r].apiResult.mriConfidence = Num(42000)
    /\ req[r].response.kind = "success" /\ req[r].response.isValid = false
    /\ \E v \in StoredBy(r) :
         /\ v.confidence = Num(42000) /\ v.predicted_class = null
         /\ v.insights = Str("Not an MRI scan. no brain structure detected")
    /\ ReportedNotMri(q) /\ req[q].apiResult.mriConfidence = Num(42005)
    /\ \E v \in StoredBy(q) : v.confidence = Num(42010)

\* the classifier answered r with isMRI = true and no dementiaAnalysis
MriWithoutAnalysis(r) ==
  /\ req[r].apiResult # undefined
  /\ req[r].apiResult.isMRI = true
  /\ req[r].apiResult.dementiaAnalysis = undefined

MalformedUpstream(r) ==
  /\ req[r].pc = "done"
  /\ req[r].response.kind = "error"
  /\ req[r].response.error = "Missing dementia analysis data in API response"
  /\ req[r].inserts = 0 /\ req[r].stored = {}

\* C13 as stated: a call answered with isMRI = true and no dementiaAnalysis
\* has failed with the malformed-upstream-response error and stored no
\* visit, whatever the status field says.
C13_Original == \A r \in ReqIds : MriWithoutAnalysis(r) => MalformedUpstream(r)

\* C13 amended: a call answered with isMRI = true, a status other than
\* 'not_mri' and no dementiaAnalysis has failed with the
\* malformed-upstream-response error and stored no visit.  With status
\* 'not_mri' the answer is handled as not an MRI although isMRI is true:
\* the call issues the insert of a visit with predicted_class = null and
\* never reports a malformed response.
C13_MalformedUpstream ==
  \A r \in ReqIds :
    MriWithoutAnalysis(r) =>
      IF req[r].apiResult.status = Str("not_mri")
      THEN /\ req[r].inserts = 1
           /\ req[r].visitData.predicted_class = null
           /\ req[r].response.error # "Missing dementia analysis data in API response"
           /\ (req[r].pc = "done" /\ req[r].visitError = "") =>
                (req[r].response.kind = "success" /\ Cardinality(StoredBy(r)) = 1)
      ELSE MalformedUpstream(r)

C13_Witness ==
  \E r, q \in ReqIds :
    /\ MriWithoutAnalysis(r) /\ req[r].apiResult.status = Str("success")
    /\ MalformedUpstream(r)
    /\ MriWithoutAnalysis(q) /\ req[q].apiResult.status = Str("not_mri")
    /\ req[q].response.kind = "success" /\ req[q].response.isValid = false

\* the insert of r came back with an error of the store
InsertRejected(r) == req[r].pc = "done" /\ req[r].visitError # ""

\* the row r submitted has a predicted_class outside the enum
EnumViolated(r) ==
  LET c == req[r].visitData.predicted_class
  IN  c.k = "string" /\
      c.s \notin {"Normal", "Very_Mild_Dementia", "Mild_Dementia", "Moderate_Dementia"}

\* C14: every insert the store rejected, on the valid-MRI branch and on the
\* not-an-MRI branch alike, was issued once and is answered with an error
\* whose message names the constraint that was violated: it speaks of the
\* foreign key exactly when the patient reference was violated, of not-null
\* exactly when a required column was missing, and of an invalid enum value
\* exactly when predicted_class was outside the enum.
C14_StorageErrorClassified ==
  \A r \in ReqIds :
    InsertRejected(r) =>
      LET message == LowerCased(req[r].response.error)
      IN  /\ req[r].inserts = 1 /\ req[r].stored = {}
          /\ req[r].response.kind = "error"
          /\ Contains(message, "foreign key") <=> req[r].visitError = "23503"
          /\ Contains(message, "not-null") <=> req[r].visitError = "23502"
          /\ Contains(message, "enum") <=> EnumViolated(r)

\* the classifier answered r with a valid MRI and a dementiaAnalysis block
ValidMri(r) ==
  /\ req[r].apiResult # undefined
  /\ req[r].apiResult.isMRI = true
  /\ req[r].apiResult.status # Str("not_mri")
  /\ req[r].apiResult.dementiaAnalysis # undefined

\* dementiaAnalysis.predictedClass || null
RawLabel(r) ==
  LET l == req[r].apiResult.dementiaAnalysis.predictedClass
  IN  IF l.k = "string" /\ l.s # "" THEN l ELSE null

\* C15: a valid MRI whose label maps to no stage (mapToDementiaStage gives
\* null, a missing label included) is not failed for that: the call issues
\* its one insert with predicted_class = null, and with the insert accepted
\* it has stored one visit with predicted_class = null and answers success;
\* the only error such a call can end in is the store's rejection of the
\* insert.
C15_MappingFailureNotFatal ==
  \A r \in ReqIds :
    (ValidMri(r) /\ mapToDementiaStage(RawLabel(r)) = null) =>
      /\ req[r].pc \in {"insertMri", "done"}
      /\ req[r].inserts = 1
      /\ req[r].visitData.predicted_class = null
      /\ req[r].pc = "done" =>
           IF req[r].visitError = ""
           THEN /\ req[r].response.kind = "success" /\ req[r].response.isValid = true
                /\ Cardinality(StoredBy(r)) = 1
                /\ \A v \in StoredBy(r) :
                     v.id = req[r].response.visit /\ v.predicted_class = null
           ELSE /\ req[r].response.kind = "error"
                /\ Contains(req[r].response.error, "Failed to save visit")

C15_Witness ==
  \E r, q \in ReqIds :
    /\ ValidMri(r) /\ req[r].apiResult.dementiaAnalysis.predictedClass = Str("unknown")
    /\ req[r].response.kind = "success"
    /\ \E v \in StoredBy(r) : v.predicted_class = null
    /\ ValidMri(q) /\ req[q].apiResult.dementiaAnalysis.predictedClass = undefined
    /\ req[q].response.kind = "success"
    /\ \E v \in StoredBy(q) : v.predicted_class = null

TokenIdentity(r) ==
  IF req[r].authHeader = Str("Bearer tok-u1") THEN Str("u1")
  ELSE IF req[r].authHeader = Str("Bearer tok-u2") THEN Str("u2")
  ELSE null

\* C17: every visit a call stored, and every visit a call has submitted,
\* has created_by equal to the identity the auth service holds for the
\* bearer token of that call, however the calls of different users
\* interleave; every row of the table is attributed to the user of the call
\* that stored it.
C17_CreatedByIsCaller ==
  /\ \A r \in ReqIds :
       /\ \A v \in StoredBy(r) : v.created_by = TokenIdentity(r) /\ v.created_by # null
       /\ req[r].visitData # undefined => req[r].visitData.created_by = TokenIdentity(r)
  /\ \A i \in DOMAIN visits :
       \E r \in ReqIds :
         visits[i].id \in req[r].stored /\ visits[i].created_by = TokenIdentity(r)

C17_Witness ==
  \E r, q \in ReqIds :
    /\ req[r].authHeader = Str("Bearer tok-u1") /\ req[q].authHeader = Str("Bearer tok-u2")
    /\ req[r].body.patientId = req[q].body.patientId
    /\ \E v \in StoredBy(r), w \in StoredBy(q) :
         v.created_by = Str("u1") /\ w.created_by = Str("u2") /\ v.id > w.id

----------------------------------------------------------------------------
(* Concurrent calls (Spec) *)

Succeeded == {r \in ReqIds : req[r].response.kind = "success"}

\* C19: however the concurrent calls interleave, the table holds exactly as
\* many rows as calls have succeeded, each successful call has a row of its
\* own (the one it reports, for its own patient, identities pairwise
\* distinct), also when two calls upload the same thing for the same
\* patient, and a call that ended in an error has left no row.
C19_IndependentCalls ==
  /\ Len(visits) = Cardinality(Succeeded)
  /\ \A r \in Succeeded :
       /\ Cardinality(StoredBy(r)) = 1
       /\ \A v \in StoredBy(r) :
            v.id = req[r].response.visit /\ v.patient_id = req[r].body.patientId.s
  /\ \A r, q \in Succeeded : r # q => StoredBy(r) \cap StoredBy(q) = {}
  /\ \A i, j \in DOMAIN visits : i # j => visits[i].id # visits[j].id
  /\ \A r \in ReqIds \ Succeeded : StoredBy(r) = {}

C19_Witness ==
  \E r, q \in ReqIds :
    /\ r # q /\ Succeeded = {r, q} /\ Len(visits) = 2
    /\ req[r].body = req[q].body /\ req[r].apiResult = req[q].apiResult
    /\ req[r].authHeader = req[q].authHeader
    /\ req[r].response.visit # req[q].response.visit

----------------------------------------------------------------------------
(* The table under the application's operations (SpecApp) *)

\* every row of the table is still there, in its place and unchanged
RowsKept == \A i \in DOMAIN visits : i \in DOMAIN visits' /\ visits'[i] = visits[i]

\* C18: no step of an application operation (ingestion call, dashboard
\* load, profile load, CSV export, PDF or JSON download) updates or deletes
\* a visit: every row stored before the step is present and field for
\* field unchanged after it.
C18_AppendOnly == [][RowsKept]_vars

C18_Witness ==
  /\ Len(visits) = 2
  /\ page.view = "profile" /\ Len(page.visits) = 1 /\ page.visits[1] = visits[1]
  /\ page.download.kind = "json"
  /\ \E r \in AppCalls : req[r].pc = "done" /\ req[r].stored = {visits[2].id}

----------------------------------------------------------------------------
(* Referential integrity of the store (SpecStore) *)

\* C20: in every state of the store, after patient creations, ingestion
\* calls (calls naming a patient that does not exist included) and patient
\* deletions, every visit references a patient that exists: an insert for an
\* unknown patient has stored nothing and answered the foreign-key error,
\* and no visit of a deleted patient is left.
C20_VisitReferencesPatient ==
  /\ \A i \in DOMAIN visits : visits[i].patient_id \in DOMAIN patients
  /\ \A r \in AppCalls :
       (req[r].pc = "done" /\ req[r].visitError = "23503") =>
         (req[r].stored = {} /\ req[r].response.kind = "error")

C20_Witness ==
  /\ DOMAIN patients = {"p2", "p9"}
  /\ visits = <<>> /\ nextVisitId > 1
  /\ \E r \in AppCalls :
       /\ req[r].body.patientId = Str("p1") /\ req[r].patientName = Str("Ann Lee")
       /\ req[r].visitError = "23503"

----------------------------------------------------------------------------
(* Properties of the insights panel (SpecInsights) *)

\* the visits whose creation time is at most t, by creation time, equal times
\* in the order given
RECURSIVE UpToTime(_, _)
UpToTime(vs, t) ==
  IF t = 0 THEN <<>>
  ELSE UpToTime(vs, t - 1) \o SelectSeq(vs, LAMBDA v : v.created_at = t)

Chronological(vs) ==
  UpToTime(vs, CHOOSE t \in CreationTimes : \A u \in CreationTimes : u <= t)

\* Normal = 0 .. Moderate_Dementia = 3; a visit without a stage counts as 0
Ordinal(stage) ==
  IF stage = Str("Very_Mild_Dementia") THEN 1
  ELSE IF stage = Str("Mild_Dementia") THEN 2
  ELSE IF stage = Str("Moderate_Dementia") THEN 3
  ELSE 0

Ordinals(vs) == [i \in 1..Len(vs) |-> Ordinal(Chronological(vs)[i].predicted_class)]

RECURSIVE SumTo(_, _)
SumTo(f, n) == IF n = 0 THEN 0 ELSE SumTo(f, n - 1) + f[n]

\* the least-squares line through (0, ys[1]) .. (n-1, ys[n]), evaluated k
\* steps past the last index: LineNum(ys, k) / LineDen(ys)
LineSlopeNum(ys) ==
  LET n == Len(ys)
  IN  n * SumTo([i \in 1..n |-> (i - 1) * ys[i]], n)
        - SumTo([i \in 1..n |-> i - 1], n) * SumTo(ys, n)

LineSlopeDen(ys) ==
  LET n == Len(ys)
  IN  n * SumTo([i \in 1..n |-> (i - 1) * (i - 1)], n)
        - SumTo([i \in 1..n |-> i - 1], n) * SumTo([i \in 1..n |-> i - 1], n)

LineNum(ys, k) ==
  LET n == Len(ys)
  IN  LineSlopeDen(ys) * SumTo(ys, n)
        + LineSlopeNum(ys) * (n * (n - 1 + k) - SumTo([i \in 1..n |-> i - 1], n))

LineDen(ys) == Len(ys) * LineSlopeDen(ys)

ClampedTo03(v, shown) ==
  IF v.num < 0 THEN shown = [num |-> 0, den |-> 1]
  ELSE IF v.num > 3 * v.den THEN shown = [num |-> 3, den |-> 1]
  ELSE shown = v

\* C21: the forecast exists exactly when the panel has at least 2 visits; its
\* two values are the least-squares line of the stage ordinals, taken in
\* order of creation against 0, 1, 2, .., one and two steps past the last
\* index; the charted values are these clamped to [0,3]; ordinals (1,2) give
\* slope 1 and a two-step value of 4, charted as 3.
C21_ForecastIsLeastSquares ==
  panel.out.rendered =>
    LET ys == Ordinals(panel.visits)
        fp == panel.out.forecastPoints
    IN  /\ (Len(ys) < 2) <=> (fp = <<>>)
        /\ Len(panel.out.Forecast) = Len(fp)
        /\ Len(ys) >= 2 =>
             /\ Len(fp) = 2
             /\ \A k \in 1..2 :
                  /\ fp[k].den > 0
                  /\ fp[k].num * LineDen(ys) = fp[k].den * LineNum(ys, k)
                  /\ ClampedTo03(fp[k], panel.out.Forecast[k])
        /\ ys = <<1, 2>> =>
             /\ slope(stageSeries(panel.visits)) = [num |-> 1, den |-> 1]
             /\ fp[2] = [num |-> 4, den |-> 1]
             /\ panel.out.Forecast[2] = [num |-> 3, den |-> 1]

\* three visits, entered newest first, whose line leaves [0,3] two steps ahead
C21_Witness ==
  /\ panel.out.rendered
  /\ Len(panel.visits) = 3
  /\ panel.visits[1].created_at = 2
  /\ panel.visits[2].created_at = 1
  /\ Ordinals(panel.visits) = <<1, 3, 3>>
  /\ panel.out.forecastPoints = <<[num |-> 13, den |-> 3], [num |-> 16, den |-> 3]>>
  /\ panel.out.Forecast = <<[num |-> 3, den |-> 1], [num |-> 3, den |-> 1]>>

\* the least-squares value two steps ahead, clamped to [0,3], as a fraction
ProjectedNum(ys) ==
  IF LineNum(ys, 2) < 0 THEN 0
  ELSE IF LineNum(ys, 2) > 3 * LineDen(ys) THEN 3 * LineDen(ys)
  ELSE LineNum(ys, 2)

\* C22: the risk of worsening is null exactly under two visits; otherwise it
\* is (clamped two-step projection - latest ordinal) / 2 clamped into [0,1],
\* hence within [0,1], and 0 when the projection does not exceed the latest
\* stage.
C22_RiskOfWorsening ==
  panel.out.rendered =>
    LET ys   == Ordinals(panel.visits)
        risk == panel.out.riskProbability
        up   == ProjectedNum(ys) - ys[Len(ys)] * LineDen(ys)
    IN  /\ (Len(ys) < 2) <=> (risk = null)
        /\ Len(ys) >= 2 =>
             /\ risk.den > 0
             /\ 0 <= risk.num /\ risk.num <= risk.den
             /\ up <= 0 => risk.num = 0
             /\ up >= 2 * LineDen(ys) => risk.num = risk.den
             /\ (0 < up /\ up < 2 * LineDen(ys)) =>
                  risk.num * 2 * LineDen(ys) = risk.den * up

\* ordinals 0, 1, 1: projection 13/6, latest 1, risk 7/12
C22_Witness ==
  /\ panel.out.rendered
  /\ Ordinals(panel.visits) = <<0, 1, 1>>
  /\ panel.out.riskProbability = [num |-> 7, den |-> 12]

\* the last two visits in order of creation both carry a confidence, and the
\* last is lower than the one before by more than 0.15
DroppedOver15Points(vs) ==
  LET ch == Chronological(vs)
      n  == Len(vs)
  IN  /\ n >= 2
      /\ ch[n].confidence # null /\ ch[n - 1].confidence # null
      /\ ch[n - 1].confidence.n - ch[n].confidence.n > 15 * (Unit \div 100)

Reversed(vs) == [i \in 1..Len(vs) |-> vs[Len(vs) + 1 - i]]

\* C23: the confidence alert is shown exactly when the two most recent visits
\* both have a confidence and the latest is lower by more than 0.15 (a drop of
\* exactly 0.15 shows none)
C23_AlertIffDropOver15 ==
  panel.out.rendered => (panel.out.alert <=> DroppedOver15Points(panel.visits))

\* C23, second half: the order in which the visits are handed to the panel
\* does not matter
C23_OrderIrrelevant ==
  panel.out.rendered => (panel.out.alert <=> alertShown(Reversed(panel.visits)))

\* C23: the alert is shown exactly on a drop of more than 0.15 between the two
\* most recent visits, whatever the order of the visits array
C23_ConfidenceAlert == C23_AlertIffDropOver15 /\ C23_OrderIrrelevant

----------------------------------------------------------------------------
(* Properties of the dashboard (SpecAnalytics) *)

WithStage(vs, c) == {i \in DOMAIN vs : vs[i].predicted_class = Str(c)}

Staged(vs) == {i \in DOMAIN vs : vs[i].predicted_class # null}

RECURSIVE SumOver(_, _)
SumOver(f, S) ==
  IF S = {} THEN 0
  ELSE LET c == CHOOSE x \in S : TRUE IN f[c] + SumOver(f, S \ {c})

\* C24: every visit with a non-null stage is counted once under its stage,
\* whatever its confidence; a stage's percentage is its count over the number
\* of visits with a stage, times 100; the percentages sum to 100.
C24_StageDistribution ==
  dashboard.metrics.calculated =>
    LET vs   == dashboard.allVisits
        data == dashboard.metrics.stageData
    IN  /\ \A c \in DementiaStageEnum :
             IF WithStage(vs, c) = {} THEN c \notin DOMAIN data
             ELSE /\ c \in DOMAIN data
                  /\ data[c].count = Cardinality(WithStage(vs, c))
                  /\ data[c].percentage.num * Cardinality(Staged(vs))
                       = 100 * Cardinality(WithStage(vs, c)) * data[c].percentage.den
        /\ Staged(vs) # {} =>
             SumOver([c \in DOMAIN data |-> data[c].count], DOMAIN data)
               = Cardinality(Staged(vs))

----------------------------------------------------------------------------
(* Properties of the CSV exports (SpecExport, SpecAnalytics) *)

\* the k-th smallest element of a set of numbers
Kth(S, k) == CHOOSE x \in S : Cardinality({y \in S : y <= x}) = k

\* a text cut at the positions in `cuts`
CutAt(t, cuts) ==
  [k \in 1..(Cardinality(cuts) + 1) |->
     SubSeq(t, IF k = 1 THEN 1 ELSE Kth(cuts, k - 1) + 1,
               IF k = Cardinality(cuts) + 1 THEN Len(t) ELSE Kth(cuts, k) - 1)]

CharAt(t, i) == SubSeq(t, i, i)

\* the lines of a file
FileLines(t) == CutAt(t, {i \in 1..Len(t) : CharAt(t, i) = "\n"})

\* position i of a line holds a quote that opens or closes a string literal
\* (one not escaped by an odd run of backslashes)
LiteralQuote(line, i) ==
  /\ CharAt(line, i) = "\""
  /\ Cardinality({k \in 1..(i - 1) : \A m \in k..(i - 1) : CharAt(line, m) = "\\"}) % 2 = 0

\* the cells of a line: cut at the commas that are outside string literals
LineCells(line) ==
  CutAt(line, {i \in 1..Len(line) :
                 /\ CharAt(line, i) = ","
                 /\ Cardinality({j \in 1..(i - 1) : LiteralQuote(line, j)}) % 2 = 0})

\* a cell as JSON.stringify writes a string or a number
JsonStringified(cell) ==
  \/ /\ Len(cell) >= 2
     /\ LiteralQuote(cell, 1) /\ LiteralQuote(cell, Len(cell))
     /\ \A i \in 2..(Len(cell) - 1) : ~LiteralQuote(cell, i)
  \/ /\ Len(cell) >= 1
     /\ \A i \in 1..Len(cell) :
          CharAt(cell, i) \in {"0", "1", "2", "3", "4", "5", "6", "7", "8", "9", ".", "-"}

WellFormedCsv(file) ==
  file.kind = "download" /\ file.text # "" =>
    LET lines == FileLines(file.text)
    IN  \A k \in 2..Len(lines) :
          /\ Len(LineCells(lines[k])) = Len(LineCells(lines[1]))
          /\ \A c \in DOMAIN LineCells(lines[k]) : JsonStringified(LineCells(lines[k])[c])

\* C27: every CSV export (Export CSV, Export Anonymized CSV, the dashboard's
\* Export Data) writes each cell JSON-stringified, and every row has as many
\* columns as the header.
C27_CellsJsonStringified ==
  /\ WellFormedCsv(research.file)
  /\ WellFormedCsv(dashboard.file)

Anonymized == research.file.name = "visits_anonymized.csv"

IdentityColumns == {"patient_id", "name", "medical_record_number", "mrn"}

\* the same visits, attributed to patient q
OfPatient(vs, q) == [i \in DOMAIN vs |-> [vs[i] EXCEPT !.patient_id = q]]

----------------------------------------------------------------------------
(* Properties of the JSON downloads (SpecReports) *)

SameExport(i, j) == report.files[i].by = report.files[j].by

StartsWith(t, prefix) == Len(t) >= Len(prefix) /\ SubSeq(t, 1, Len(prefix)) = prefix

----------------------------------------------------------------------------
(* Closure of the stage normalizer (SpecMap) *)

EnumValues == {"Normal", "Very_Mild_Dementia", "Mild_Dementia", "Moderate_Dementia"}

\* C28, first half: the result is always null or one of the four enum values
C28_Closed ==
  mapResult # undefined =>
    mapResult = null \/ \E v \in EnumValues : mapResult = Str(v)

\* C28, second half: an enum value is mapped to itself
C28_Idempotent ==
  mapResult # undefined =>
    \A v \in EnumValues : apiClass = Str(v) => mapResult = Str(v)

\* C28: mapToDementiaStage is closed and idempotent on the enum
C28_ClosedAndIdempotent == C28_Closed /\ C28_Idempotent

-----------------------------------------------------------------------------
(* Properties of a submission of the upload form (SpecUpload) *)

\* the step in which a started submission completes
SubmissionCompletes == form.pc # "idle" /\ form'.pc = "idle"

\* the step that reports a visit stored: the store's insert added a row, or
\* the function answered with the stored visit
ReportedStored ==
  /\ Cardinality(form'.stored) = Cardinality(form.stored) + 1
  /\ form.pc = "insert" =>
        /\ Len(visits') = Len(visits) + 1
        /\ visits'[Len(visits')].id \in form'.stored \ form.stored
  /\ form.pc \in {"insert", "invoke"}

C29_SubmissionStep ==
  /\ SubmissionCompletes => ~form'.loading
  /\ form'.loading /\ ~form.loading => form.pc = "idle" /\ form'.submits = form.submits + 1
  /\ form'.onSuccessCalls \in {form.onSuccessCalls, form.onSuccessCalls + 1}
  /\ form'.onSuccessCalls # form.onSuccessCalls => SubmissionCompletes /\ ReportedStored
  /\ SubmissionCompletes /\ ~ReportedStored => form'.onSuccessCalls = form.onSuccessCalls

\* C29: every submission that starts (loading set to true) ends with loading
\* reset to false, whichever way it completes: no session, classifier or
\* function failure, insert failure, or success.  onSuccess is invoked at
\* most once per submission, only in the step that reports the visit stored,
\* and never when the submission fails.
C29_LoadingResetAndOnSuccessOnce ==
  /\ [][C29_SubmissionStep]_vars
  /\ [](form.loading <=> form.pc # "idle")
  /\ [](form.onSuccessCalls <= form.submits)
  /\ (form.loading ~> ~form.loading)

\* two submissions are over: one failed for want of a session, one succeeded
C29_Witness ==
  /\ form.pc = "idle" /\ ~form.loading
  /\ form.submits = 2
  /\ form.onSuccessCalls = 1
  /\ form.toast = "Not authenticated"

-----------------------------------------------------------------------------
(* Properties of the local PDF fallback (SpecPdf) *)

\* the number of A4 pages an image of height h covers
PagesFor(h) == IF h % A4 = 0 THEN h \div A4 ELSE (h \div A4) + 1

\* offsets 0, -297, -594, ...: page i shows the i-th slice of the image
ConsecutiveSlices(n) == [i \in 1 .. n |-> 0 - (i - 1) * A4]

\* for every rendered image height the pagination loop terminates and the
\* document is saved
C30_Terminates == <>[](pdf.saved)

\* C30: once the pagination loop has terminated, the pages of the document
\* show consecutive 297 mm slices of the image (offsets 0, -297, -594, ...):
\* no slice is skipped and no page lies beyond the image's end.
C30_PaginationSlices ==
  pdf.saved => pdf.pages = ConsecutiveSlices(PagesFor(pdf.pdfHeight))

====
